---- MODULE Spec2Model ----
(***************************************************************************)
(* A model of the transcription orchestration layer of ttservice:          *)
(*   - SmartChunker.process            (smart_chunking.py)                  *)
(*   - MLXTranscriber                  (transcription_hybrid.py)            *)
(*   - HybridMLXTranscriber            (transcription_hybrid.py)            *)
(*   - PipelineTranscriber.process_batch (pipeline_transcriber.py)          *)
(*                                                                         *)
(* Each program has its own group of variables and its own specification;  *)
(* a specification holds the variables of the other programs at their idle *)
(* values.  Texts are sequences of one-character strings.  Times are whole *)
(* numbers of ticks of an arbitrary unit.                                  *)
(***************************************************************************)
EXTENDS Integers, Sequences, FiniteSets, TLC

VARIABLES
    \* SmartChunker.process
    total_duration, chunk_duration, overlap_duration, chunks_metadata, chunker_pc,
    \* a direct call of _merge_chunks or _merge_results
    fn_chunk, fn_has_meta, fn_merger, fn_out, fn_pc,
    \* a direct call of HybridMLXTranscriber._split_chunks
    chunk_files,         \* the chunk numbers of the files of the list, in list order
    num_groups,
    subsets,
    split_i,             \* the i of the loop of _split_chunks
    split_pc,
    \* a direct call of _save_srt of one of the transcribers
    srt_class,           \* the class whose _save_srt is called
    srt_chunks,          \* the chunks argument
    srt_entries,
    srt_i,               \* the chunks the loop of _save_srt has gone through
    srt_pc,
    \* MLXTranscriber.transcribe_directory
    mlx_has_meta, mlx_total_chunks, mlx_pending, mlx_results, mlx_merge_arg,
    mlx_combined_text, mlx_pc,
    mlx_chunk_files,     \* the number of chunk files in input_dir
    mlx_bad_chunks,      \* the chunks on whose audio the engine may raise
    mlx_engine_texts,    \* the texts the engine returns on the audio of the run
    max_workers,         \* self.max_workers
    checkpoint_file,     \* "none": no checkpoint_file argument; else whether the file is "absent" or "present"
    checkpoint_data,     \* the 'chunks' map in the checkpoint file
    processed_chunks,    \* the map loaded from the checkpoint at the start of the run
    completed_count,
    mlx_engine_calls,    \* history: per chunk, the calls of transcribe_file in this run
    final_result,
    \* PipelineTranscriber.process_batch
    job_status,          \* job.status of every job of the batch
    job_trail,           \* history: the statuses each job has had, in order
    preprocess_futures,  \* the state of each job's preprocessing future
    completed_order,     \* finished futures that as_completed has yet to yield
    batch_results,       \* results
    batch_pc,            \* where process_batch is
    current_job,         \* the job whose transcription runs or ran last
    raised_job,          \* the job at which process_batch raised, 0 if none
    temp_base,           \* the temp_base argument of process_batch
    prep_finished,       \* history: the jobs in the order their preprocessing finished
    transcribe_started,  \* history: the jobs in the order their transcription started
    \* HybridMLXTranscriber.transcribe_directory for current_job
    hy_input_dir, hy_total_chunks, hy_futures, all_results, hy_merge_arg,
    hy_combined_text, hy_pc,
    hy_engine_calls,     \* history: per chunk, the calls of transcribe_file for current_job
    hy_final_result,
    \* ProcessManager and the job ledger
    ledger,              \* the rows of transcription_jobs: status, pid, heartbeat, error_message
    processes,           \* self._processes: the pid tracked for each job, Null if none
    os_procs,            \* the processes, by pid: their job, state and whether this supervisor started them
    stop_calls,          \* history: the calls of stop_process that have returned
    stop_call,           \* the call of stop_process that is in one of its waits
    hb_pc,               \* where the iteration of _heartbeat_loop is
    scan_signalled,      \* the pids the last _check_orphans sent SIGTERM to
    \* the threads of the application in ProcessManager, statement by statement
    map_threads,         \* per thread: where it is, and the job and record it holds
    \* the threads of the application that construct ProcessManager
    sg_instance,         \* ProcessManager._instance: the attributes of the instance
    sg_lock,             \* the thread that holds ProcessManager._lock
    sg_heartbeats,       \* the threads of _heartbeat_loop that have been started
    sg_threads,          \* per thread: where it is in ProcessManager()
    \* the threads of one transcription process and its MLXTranscriber
    eng_caller,          \* what runs transcribe_file in the process
    eng_workers,         \* max_workers of the MLXTranscriber of the process
    eng_chunks,          \* the number of chunks of the process
    eng_bad,             \* the chunks on which the engine raises
    eng_threads,         \* per thread: where it is, and the chunk it has taken
    model_lock,          \* self._model_lock: the thread that holds it, 0 if none
    eng_taken,           \* the chunks taken so far, in the order of the list
    eng_results,         \* per chunk: the result recorded for it
    \* _merge_chunks with metadata, turn by turn
    ov_chunks,           \* the chunks argument
    ov_parts,            \* merged_parts
    ov_idx,              \* the chunks the loop has gone through
    ov_out,              \* the text returned
    ov_pc

chunkerVars == << total_duration, chunk_duration, overlap_duration,
                  chunks_metadata, chunker_pc >>

splitVars == << chunk_files, num_groups, subsets, split_i, split_pc >>

srtVars == << srt_class, srt_chunks, srt_entries, srt_i, srt_pc >>

mapVars == << map_threads >>

singletonVars == << sg_instance, sg_lock, sg_heartbeats, sg_threads >>

engineVars == << eng_caller, eng_workers, eng_chunks, eng_bad, eng_threads,
                 model_lock, eng_taken, eng_results >>

overlapVars == << ov_chunks, ov_parts, ov_idx, ov_out, ov_pc >>

\* The programs that are run on their own, step by step
ownVars == << mapVars, singletonVars, engineVars, overlapVars >>

\* The direct calls of the mergers, of _split_chunks and of _save_srt
callVars == << fn_chunk, fn_has_meta, fn_merger, fn_out, fn_pc, splitVars, srtVars >>

fnVars == << callVars, ownVars >>

\* What the threads over self._processes leave as it is
restOfMap == << callVars, singletonVars, engineVars, overlapVars >>

\* What the threads that construct ProcessManager leave as it is
restOfSingleton == << callVars, mapVars, engineVars, overlapVars >>

\* What the threads of a transcription process leave as it is
restOfEngine == << callVars, mapVars, singletonVars, overlapVars >>

\* What the loop of _merge_chunks leaves as it is
restOfOverlap == << callVars, mapVars, singletonVars, engineVars >>

\* What a run of transcribe_directory is given and never changes
mlxEnv == << mlx_chunk_files, mlx_bad_chunks, mlx_engine_texts, max_workers >>

mlxVars == << mlx_has_meta, mlx_total_chunks, mlx_pending, mlx_results,
              mlx_merge_arg, mlx_combined_text, mlx_pc, mlxEnv,
              checkpoint_file, checkpoint_data, processed_chunks,
              completed_count, mlx_engine_calls, final_result >>

batchVars == << job_status, job_trail, preprocess_futures, completed_order,
                batch_results, batch_pc, current_job, raised_job, temp_base,
                prep_finished, transcribe_started >>

hybridVars == << hy_input_dir, hy_total_chunks, hy_futures, all_results, hy_merge_arg,
                 hy_combined_text, hy_pc,
                hy_engine_calls, hy_final_result >>

pipeVars == << batchVars, hybridVars >>

pmVars == << ledger, processes, os_procs, stop_calls, stop_call, hb_pc,
            scan_signalled >>

vars == << chunkerVars, fnVars, mlxVars, pipeVars, pmVars >>

----------------------------------------------------------------------------
(* Bounds of the model *)

\* The jobs of the ledger
\* The longest list of chunk files handed to _split_chunks directly
MaxSplitFiles == 9

\* The most groups asked of _split_chunks directly
MaxGroups == 4

\* The most chunk results handed to _save_srt directly
MaxSrtChunks == 2

MaxPmJobs == 2

\* The threads of the application that construct ProcessManager
MaxSgThreads == 2

\* The calls of ProcessManager() a thread makes
MaxConstructions == 2

\* The most threads per process (max_workers, workers_per_process)
MaxEngWorkers == 3

\* The most chunks handed to the threads of one process
MaxEngChunks == 3

\* The most chunk results handed to _merge_chunks turn by turn
MaxOvChunks == 3

\* The processes start_process spawns in a run
MaxPids == 2

\* The calls of stop_process in a run
MaxStops == 1

MaxDuration == 63

MaxChunkDuration == 20

MaxOverlap == 3

\* Longest text handed to a merger directly
MaxTextLen == 3

\* Most chunk files of a directory given to MLXTranscriber
MaxMlxChunks == 3

\* Most files of a batch given to process_batch
MaxJobs == 2

\* Most chunk files the preprocessing of a pipeline job writes
MaxPipeChunks == 3

\* The large chunk directory of a run with a checkpoint file
MaxCkptChunks == 11

\* The most chunks on which the engine raises in a run with a checkpoint file
MaxFailedChunks == 1

\* The last chunk that the checkpoint a run starts from may record
MaxCkptIdx == 1

----------------------------------------------------------------------------
(* Arithmetic helpers *)

Min(a, b) == IF a <= b THEN a ELSE b

Max(a, b) == IF a >= b THEN a ELSE b

\* math.ceil(a / b) for a >= 0, b > 0
Ceil(a, b) == (a + b - 1) \div b

----------------------------------------------------------------------------
(* Text helpers: Python str operations on sequences of characters *)

\* The whitespace characters of the model.
IsSpace(c) == c \in { " ", "\n" }

\* Index of the first non-whitespace character, Len(s) + 1 if there is none.
FirstNonSpace(s) ==
    IF \E i \in 1..Len(s) : ~IsSpace(s[i])
    THEN CHOOSE i \in 1..Len(s) :
            /\ ~IsSpace(s[i])
            /\ \A j \in 1..(i - 1) : IsSpace(s[j])
    ELSE Len(s) + 1

\* Index of the last non-whitespace character, 0 if there is none.
LastNonSpace(s) ==
    IF \E i \in 1..Len(s) : ~IsSpace(s[i])
    THEN CHOOSE i \in 1..Len(s) :
            /\ ~IsSpace(s[i])
            /\ \A j \in (i + 1)..Len(s) : IsSpace(s[j])
    ELSE 0

\* s.lstrip()
LStrip(s) == SubSeq(s, FirstNonSpace(s), Len(s))

\* s.strip()
Strip(s) == SubSeq(s, FirstNonSpace(s), LastNonSpace(s))

\* s[-n:] for 1 <= n <= len(s)
Suffix(s, n) == SubSeq(s, Len(s) - n + 1, Len(s))

\* s[:n]
Prefix(s, n) == SubSeq(s, 1, Min(n, Len(s)))

\* s[n:]
DropPrefix(s, n) == SubSeq(s, n + 1, Len(s))

RECURSIVE SplitFrom(_, _, _)
\* The words of s from position i on, word being the word read so far.
SplitFrom(s, i, word) ==
    IF i > Len(s)
    THEN IF word = << >> THEN << >> ELSE << word >>
    ELSE IF IsSpace(s[i])
         THEN IF word = << >>
              THEN SplitFrom(s, i + 1, << >>)
              ELSE << word >> \o SplitFrom(s, i + 1, << >>)
         ELSE SplitFrom(s, i + 1, Append(word, s[i]))

\* s.split(): the maximal runs of non-whitespace characters
Split(s) == SplitFrom(s, 1, << >>)

RECURSIVE Join(_, _)
\* sep.join(parts)
Join(sep, parts) ==
    IF parts = << >> THEN << >>
    ELSE IF Len(parts) = 1 THEN parts[1]
    ELSE parts[1] \o sep \o Join(sep, Tail(parts))

\* ' '.join(s.split())
Normalize(s) == Join(<< " " >>, Split(s))

----------------------------------------------------------------------------
(* Texts used as engine outputs *)

\* "we reach the end of sentence"
TextA ==
    << "w", "e", " ", "r", "e", "a", "c", "h", " ", "t", "h", "e", " ", "e", "n", "d", " ", "o", "f", " ", "s", "e", "n", "t", "e", "n", "c", "e" >>

\* "end of sentence continues"
TextBShort ==
    << "e", "n", "d", " ", "o", "f", " ", "s", "e", "n", "t", "e", "n", "c", "e", " ", "c", "o", "n", "t", "i", "n", "u", "e", "s" >>

\* "reach the end of sentence continues"
TextBLong ==
    << "r", "e", "a", "c", "h", " ", "t", "h", "e", " ", "e", "n", "d", " ", "o", "f", " ", "s", "e", "n", "t", "e", "n", "c", "e", " ", "c", "o", "n", "t", "i", "n", "u", "e", "s" >>

\* "reach  the end of sentence continues"
TextBSpaced ==
    << "r", "e", "a", "c", "h", " ", " ", "t", "h", "e", " ", "e", "n", "d", " ", "o", "f", " ", "s", "e", "n", "t", "e", "n", "c", "e", " ", "c", "o", "n", "t", "i", "n", "u", "e", "s" >>

\* "plain"
TextPlain == << "p", "l", "a", "i", "n" >>

\* "something else entirely here"
TextOther ==
    << "s", "o", "m", "e", "t", "h", "i", "n", "g", " ", "e", "l", "s", "e", " ", "e", "n", "t", "i", "r", "e", "l", "y", " ", "h", "e", "r", "e" >>

----------------------------------------------------------------------------
(* MLXTranscriber._remove_overlap and _merge_chunks,                       *)
(* HybridMLXTranscriber._merge_results                                     *)

\* min_overlap: int = 20
MinOverlap == 20

\* max_check = min(len(prev_text), len(curr_text), 200)
MaxOverlapCheck == 200

\* The separator of _merge_chunks: '\n\n'
ChunkSeparator == << "\n", "\n" >>

\* The separator of _merge_results: '\n'
ResultSeparator == << "\n" >>

\* prev_suffix_norm == curr_prefix_norm for overlap_len = n
OverlapMatches(prev_text, curr_text, n) ==
    Normalize(Suffix(prev_text, n)) = Normalize(Prefix(curr_text, n))

\* A faulty scan: it goes down to an overlap of one character
BestOverlapFromOne(prev_text, curr_text) ==
    LET max_check == Min(Min(Len(prev_text), Len(curr_text)), MaxOverlapCheck)
        found == { n \in 1..max_check : OverlapMatches(prev_text, curr_text, n) }
    IN  IF found = {} THEN 0
        ELSE CHOOSE n \in found : \A m \in found : m <= n

\* A faulty scan: it counts up from min_overlap and stops at the first match
BestOverlapShortest(prev_text, curr_text) ==
    LET max_check == Min(Min(Len(prev_text), Len(curr_text)), MaxOverlapCheck)
        found == { n \in MinOverlap..max_check : OverlapMatches(prev_text, curr_text, n) }
    IN  IF found = {} THEN 0
        ELSE CHOOSE n \in found : \A m \in found : n <= m

\* The for loop of _remove_overlap: the first overlap_len, counting down from
\* max_check to min_overlap, at which the normalized suffix and prefix agree;
\* 0 if there is none.
BestOverlap(prev_text, curr_text) ==
    LET max_check == Min(Min(Len(prev_text), Len(curr_text)), MaxOverlapCheck)
        found == { n \in MinOverlap..max_check : OverlapMatches(prev_text, curr_text, n) }
    IN  IF found = {} THEN 0
        ELSE CHOOSE n \in found : \A m \in found : m <= n

\* A faulty removal: min_overlap characters are dropped without a match
RemoveOverlapDropsMinimum(prev_text, curr_text) ==
    IF prev_text = << >> \/ curr_text = << >>
    THEN curr_text
    ELSE LStrip(DropPrefix(curr_text, Min(MinOverlap, Len(curr_text))))

\* _remove_overlap(prev_text, curr_text)
RemoveOverlap(prev_text, curr_text) ==
    IF prev_text = << >> \/ curr_text = << >>
    THEN curr_text
    ELSE LET best_overlap == BestOverlap(prev_text, curr_text)
         IN  IF best_overlap > 0
             THEN LStrip(DropPrefix(curr_text, best_overlap))
             ELSE curr_text

RECURSIVE NonEmptyTexts(_)
\* [c.get('text', '') for c in chunks if c.get('text')]
NonEmptyTexts(chunks) ==
    IF chunks = << >> THEN << >>
    ELSE IF Head(chunks).text = << >>
         THEN NonEmptyTexts(Tail(chunks))
         ELSE << Head(chunks).text >> \o NonEmptyTexts(Tail(chunks))

RECURSIVE MergedParts(_, _, _)
\* The loop of _merge_chunks from list position idx (1-based here) on,
\* merged_parts being the parts collected so far.
MergedParts(chunks, idx, merged_parts) ==
    IF idx > Len(chunks) THEN merged_parts
    ELSE LET text == Strip(chunks[idx].text)
         IN  IF text = << >>
             THEN MergedParts(chunks, idx + 1, merged_parts)
             ELSE IF idx = 1
                  THEN MergedParts(chunks, idx + 1, Append(merged_parts, text))
                  ELSE LET prev_text == IF merged_parts # << >>
                                        THEN merged_parts[Len(merged_parts)]
                                        ELSE << >>
                       IN  MergedParts(chunks, idx + 1,
                              Append(merged_parts, RemoveOverlap(prev_text, text)))

\* A faulty merge: the texts are joined as they are, metadata or not
MergeChunksKeepsWhitespace(chunks, has_meta) ==
    Join(ChunkSeparator, NonEmptyTexts(chunks))

\* _merge_chunks(chunks, chunks_meta); has_meta: chunks_meta is a non-empty list
MergeChunks(chunks, has_meta) ==
    IF chunks = << >> THEN << >>
    ELSE IF ~has_meta
         THEN Join(ChunkSeparator, NonEmptyTexts(chunks))
         ELSE Join(ChunkSeparator, MergedParts(chunks, 1, << >>))

RECURSIVE ResultTexts(_)
\* The texts list of _merge_results
ResultTexts(results) ==
    IF results = << >> THEN << >>
    ELSE IF Head(results).success /\ Head(results).text # << >>
         THEN << Strip(Head(results).text) >> \o ResultTexts(Tail(results))
         ELSE ResultTexts(Tail(results))

\* _merge_results(results)
MergeResults(results) == Join(ResultSeparator, ResultTexts(results))

----------------------------------------------------------------------------
(* Idle values: the variables of a program that a specification does not run *)

ChunkerIdle ==
    /\ total_duration = 0
    /\ chunk_duration = 0
    /\ overlap_duration = 0
    /\ chunks_metadata = << >>
    /\ chunker_pc = "idle"

\* No merger is called directly
MergeIdle ==
    /\ fn_chunk = [ success |-> FALSE, text |-> << >> ]
    /\ fn_has_meta = FALSE
    /\ fn_merger = "none"
    /\ fn_out = << >>
    /\ fn_pc = "idle"

\* _split_chunks is not called directly
SplitIdle ==
    /\ chunk_files = << >>
    /\ num_groups = 0
    /\ subsets = << >>
    /\ split_i = 0
    /\ split_pc = "idle"

\* _save_srt is not called directly
SrtIdle ==
    /\ srt_class = "none"
    /\ srt_chunks = << >>
    /\ srt_entries = << >>
    /\ srt_i = 0
    /\ srt_pc = "idle"

\* No thread is in a method of ProcessManager
MapIdle == map_threads = << >>

\* ProcessManager is not constructed
SingletonIdle ==
    /\ sg_instance = << >>
    /\ sg_lock = 0
    /\ sg_heartbeats = 0
    /\ sg_threads = << >>

\* No transcription process runs on its own
EngineIdle ==
    /\ eng_caller = "none"
    /\ eng_workers = 0
    /\ eng_chunks = 0
    /\ eng_bad = {}
    /\ eng_threads = << >>
    /\ model_lock = 0
    /\ eng_taken = 0
    /\ eng_results = << >>

\* _merge_chunks is not run turn by turn
OverlapIdle ==
    /\ ov_chunks = << >>
    /\ ov_parts = << >>
    /\ ov_idx = 0
    /\ ov_out = << >>
    /\ ov_pc = "idle"

OwnIdle ==
    /\ MapIdle
    /\ SingletonIdle
    /\ EngineIdle
    /\ OverlapIdle

FnIdle ==
    /\ MergeIdle
    /\ SplitIdle
    /\ SrtIdle
    /\ OwnIdle

\* final_result before the statistics are calculated
NoResult == [ total_chunks |-> 0, successful_chunks |-> 0, success_rate |-> 0 ]

PmIdle ==
    /\ ledger = << >>
    /\ processes = << >>
    /\ os_procs = << >>
    /\ stop_calls = << >>
    /\ stop_call = << >>
    /\ hb_pc = "idle"
    /\ scan_signalled = {}

MlxIdle ==
    /\ mlx_chunk_files = 0
    /\ mlx_bad_chunks = {}
    /\ mlx_engine_texts = {}
    /\ max_workers = 0
    /\ checkpoint_file = "none"
    /\ checkpoint_data = << >>
    /\ processed_chunks = << >>
    /\ completed_count = 0
    /\ mlx_engine_calls = << >>
    /\ final_result = NoResult
    /\ mlx_has_meta = FALSE
    /\ mlx_total_chunks = 0
    /\ mlx_pending = {}
    /\ mlx_results = << >>
    /\ mlx_merge_arg = << >>
    /\ mlx_combined_text = << >>
    /\ mlx_pc = "idle"

PipeIdle ==
    /\ job_status = << >>
    /\ job_trail = << >>
    /\ preprocess_futures = << >>
    /\ completed_order = << >>
    /\ batch_results = << >>
    /\ batch_pc = "idle"
    /\ current_job = 0
    /\ raised_job = 0
    /\ temp_base = << >>
    /\ prep_finished = << >>
    /\ transcribe_started = << >>
    /\ hy_input_dir = << >>
    /\ hy_total_chunks = 0
    /\ hy_futures = {}
    /\ all_results = << >>
    /\ hy_merge_arg = << >>
    /\ hy_combined_text = << >>
    /\ hy_pc = "idle"
    /\ hy_engine_calls = << >>
    /\ hy_final_result = NoResult

----------------------------------------------------------------------------
(* SmartChunker.process: the plan of the chunks *)

\* A faulty plan: the partial chunk at the tail is not counted
NumChunksSkipsTail(D, C) == D \div C

\* num_chunks = math.ceil(total_duration / self.chunk_duration)
NumChunks(D, C) == Ceil(D, C)

\* core_end = min(total_duration, (i + 1) * self.chunk_duration)
CoreEnd(D, C, i) == Min(D, (i + 1) * C)

\* start = max(0, i * self.chunk_duration - self.overlap_duration)
WindowStart(C, O, i) == Max(0, i * C - O)

\* A faulty plan: the end of the window is not held to the input
WindowEndPastInput(D, C, O, i) == (i + 1) * C + O

\* end = min(total_duration, (i + 1) * self.chunk_duration + self.overlap_duration)
WindowEnd(D, C, O, i) == Min(D, (i + 1) * C + O)

\* The descriptor of chunk i (0-based), as computed in the loop body.
ChunkMeta(D, C, O, i) ==
    [ chunk_number |-> i + 1,
      start_time   |-> WindowStart(C, O, i),
      end_time     |-> WindowEnd(D, C, O, i),
      core_start   |-> i * C,
      core_end     |-> CoreEnd(D, C, i) ]

InitChunker ==
    /\ PmIdle
    /\ FnIdle
    /\ MlxIdle
    /\ PipeIdle
    /\ total_duration \in 1..MaxDuration
    /\ chunk_duration \in 1..MaxChunkDuration
    /\ overlap_duration \in 0..MaxOverlap
    /\ chunks_metadata = << >>
    /\ chunker_pc = "ready"

\* process() returns the metadata of all chunks.
Process ==
    /\ chunker_pc = "ready"
    /\ chunks_metadata' =
          [ k \in 1..NumChunks(total_duration, chunk_duration) |->
              ChunkMeta(total_duration, chunk_duration, overlap_duration, k - 1) ]
    /\ chunker_pc' = "done"
    /\ UNCHANGED << total_duration, chunk_duration, overlap_duration >>
    /\ UNCHANGED << fnVars, mlxVars, pipeVars, pmVars >>

\* FFmpeg fails or times out on some chunk: process() raises RuntimeError.
ProcessRaises ==
    /\ chunker_pc = "ready"
    /\ chunker_pc' = "raised"
    /\ UNCHANGED << total_duration, chunk_duration, overlap_duration, chunks_metadata >>
    /\ UNCHANGED << fnVars, mlxVars, pipeVars, pmVars >>

NextChunker ==
    \/ Process
    \/ ProcessRaises

SpecChunker == InitChunker /\ [][NextChunker]_vars

----------------------------------------------------------------------------
(* A merger called on a list of one chunk result *)

\* The characters of the texts handed to a merger directly
FnAlphabet == { "a", " ", "\n" }

FnTexts == UNION { [ 1..n -> FnAlphabet ] : n \in 0..MaxTextLen }

\* A result as the workers build it: a success with a text, or a failure
\* with the empty text.
FnChunks ==
    { [ success |-> TRUE, text |-> t ] : t \in FnTexts }
        \cup { [ success |-> FALSE, text |-> << >> ] }

InitMergeFn ==
    /\ PmIdle
    /\ ChunkerIdle
    /\ MlxIdle
    /\ PipeIdle
    /\ fn_chunk \in FnChunks
    /\ \/ fn_merger = "MLXTranscriber" /\ fn_has_meta \in BOOLEAN
       \/ fn_merger = "HybridMLXTranscriber" /\ fn_has_meta = FALSE
    /\ fn_out = << >>
    /\ fn_pc = "ready"
    /\ SplitIdle
    /\ SrtIdle
    /\ OwnIdle

\* MLXTranscriber._merge_chunks([chunk], chunks_meta)
CallMergeChunks ==
    /\ fn_pc = "ready"
    /\ fn_merger = "MLXTranscriber"
    /\ fn_out' = MergeChunks(<< fn_chunk >>, fn_has_meta)
    /\ fn_pc' = "returned"
    /\ UNCHANGED << fn_chunk, fn_has_meta, fn_merger, splitVars, srtVars, ownVars >>
    /\ UNCHANGED << chunkerVars, mlxVars, pipeVars, pmVars >>

\* HybridMLXTranscriber._merge_results([chunk])
CallMergeResults ==
    /\ fn_pc = "ready"
    /\ fn_merger = "HybridMLXTranscriber"
    /\ fn_out' = MergeResults(<< fn_chunk >>)
    /\ fn_pc' = "returned"
    /\ UNCHANGED << fn_chunk, fn_has_meta, fn_merger, splitVars, srtVars, ownVars >>
    /\ UNCHANGED << chunkerVars, mlxVars, pipeVars, pmVars >>

NextMergeFn ==
    \/ CallMergeChunks
    \/ CallMergeResults

SpecMergeFn == InitMergeFn /\ [][NextMergeFn]_vars

----------------------------------------------------------------------------
(* HybridMLXTranscriber._split_chunks called on a sorted list of chunk files *)

\* A faulty split: the list is cut into runs of two files
GroupOfRuns(i, groups) == (i \div 2) % groups

\* subsets[i % num_groups]: the group, counted from 0, of the file at
\* position i of the list, counted from 0
GroupOf(i, groups) == i % groups

\* sorted(input_path.glob("chunk_*.wav")): chunk_001.wav ... as chunk numbers
SortedChunkFiles(n) == [ i \in 1..n |-> i ]

InitSplit ==
    /\ PmIdle
    /\ ChunkerIdle
    /\ MlxIdle
    /\ PipeIdle
    /\ MergeIdle
    /\ SrtIdle
    /\ OwnIdle
    /\ chunk_files \in { SortedChunkFiles(n) : n \in 0..MaxSplitFiles }
    /\ num_groups \in 1..MaxGroups
    /\ subsets = [ group \in 1..num_groups |-> << >> ]
    /\ split_i = 0
    /\ split_pc = "loop"

\* One turn of 'for i, chunk_file in enumerate(chunk_files)':
\* subsets[i % num_groups].append(chunk_file)
SplitAppend ==
    /\ split_pc = "loop"
    /\ split_i < Len(chunk_files)
    /\ subsets' = [ subsets EXCEPT ![GroupOf(split_i, num_groups) + 1] =
                                        Append(@, chunk_files[split_i + 1]) ]
    /\ split_i' = split_i + 1
    /\ UNCHANGED << chunk_files, num_groups, split_pc >>
    /\ UNCHANGED << fn_chunk, fn_has_meta, fn_merger, fn_out, fn_pc, srtVars, ownVars >>
    /\ UNCHANGED << chunkerVars, mlxVars, pipeVars, pmVars >>

\* return subsets
SplitReturns ==
    /\ split_pc = "loop"
    /\ split_i = Len(chunk_files)
    /\ split_pc' = "returned"
    /\ UNCHANGED << chunk_files, num_groups, subsets, split_i >>
    /\ UNCHANGED << fn_chunk, fn_has_meta, fn_merger, fn_out, fn_pc, srtVars, ownVars >>
    /\ UNCHANGED << chunkerVars, mlxVars, pipeVars, pmVars >>

NextSplit ==
    \/ SplitAppend
    \/ SplitReturns

SpecSplit == InitSplit /\ [][NextSplit]_vars

----------------------------------------------------------------------------
(* _save_srt of MLXTranscriber and of HybridMLXTranscriber, called on a    *)
(* list of chunk results                                                   *)

\* _seconds_to_srt_timestamp on whole seconds: hours, minutes, seconds and
\* milliseconds of timedelta(seconds=seconds), whose days are left out
SecondsToSrtTimestamp(seconds) ==
    LET td_seconds == seconds % 86400
    IN  << td_seconds \div 3600, (td_seconds % 3600) \div 60, td_seconds % 60, 0 >>

\* chunk.get('metadata', {}) of a result without 'metadata'
NoMetadata == << >>

\* chunk_start_offset = chunk_meta.get('start_time', 0) in
\* MLXTranscriber._save_srt; HybridMLXTranscriber._save_srt has no offset
ChunkStartOffset(class, chunk) ==
    IF class = "MLXTranscriber" /\ chunk.metadata # NoMetadata
    THEN chunk.metadata.start_time
    ELSE 0

\* The entries of the segments of chunk from segment j on, numbered from
\* entry_num; a segment whose text is blank is passed over
RECURSIVE SrtEntriesOf(_, _, _, _)
SrtEntriesOf(class, chunk, j, entry_num) ==
    IF j > Len(chunk.segments) THEN << >>
    ELSE LET seg == chunk.segments[j]
         IN  IF Strip(seg.text) = << >>
             THEN SrtEntriesOf(class, chunk, j + 1, entry_num)
             ELSE << [ entry_num |-> entry_num,
                       start_ts |-> SecondsToSrtTimestamp(
                                       ChunkStartOffset(class, chunk) + seg.start),
                       end_ts |-> SecondsToSrtTimestamp(
                                       ChunkStartOffset(class, chunk) + seg.end),
                       text |-> Strip(seg.text) ] >>
                  \o SrtEntriesOf(class, chunk, j + 1, entry_num + 1)

\* The segments the engine returns for a chunk, timed from the start of
\* the chunk's audio: none, one, two, a blank one before another, and the
\* same words twice
SegmentLists ==
    LET first == [ start |-> 0, end |-> 2, text |-> << "a" >> ]
        second == [ start |-> 2, end |-> 5, text |-> << " ", "b" >> ]
        blank == [ start |-> 0, end |-> 2, text |-> << " " >> ]
    IN  { << >>, << first >>, << first, second >>, << blank, second >>,
          << second, second >> }

\* The results of the chunks of a plan with windows of MaxChunkDuration and
\* overlap MaxOverlap: with the metadata of the plan when has_meta
SrtChunkLists(has_meta) ==
    UNION { { [ k \in 1..n |->
                  [ chunk_number |-> k,
                    segments |-> segs[k],
                    metadata |-> IF has_meta
                                 THEN [ start_time |->
                                          WindowStart(MaxChunkDuration, MaxOverlap, k - 1) ]
                                 ELSE NoMetadata ] ] :
              segs \in [ 1..n -> SegmentLists ] } :
            n \in 1..MaxSrtChunks }

InitSrt ==
    /\ PmIdle
    /\ ChunkerIdle
    /\ MlxIdle
    /\ PipeIdle
    /\ MergeIdle
    /\ SplitIdle
    /\ OwnIdle
    /\ \/ /\ srt_class = "MLXTranscriber"
          /\ \E has_meta \in BOOLEAN : srt_chunks \in SrtChunkLists(has_meta)
       \/ /\ srt_class = "HybridMLXTranscriber"
          /\ srt_chunks \in SrtChunkLists(FALSE)
    /\ srt_entries = << >>
    /\ srt_i = 0
    /\ srt_pc = "loop"

\* One turn of 'for chunk in chunks' of _save_srt
SrtChunk ==
    /\ srt_pc = "loop"
    /\ srt_i < Len(srt_chunks)
    /\ srt_entries' = srt_entries \o
          SrtEntriesOf(srt_class, srt_chunks[srt_i + 1], 1, Len(srt_entries) + 1)
    /\ srt_i' = srt_i + 1
    /\ UNCHANGED << srt_class, srt_chunks, srt_pc >>
    /\ UNCHANGED << fn_chunk, fn_has_meta, fn_merger, fn_out, fn_pc, splitVars, ownVars >>
    /\ UNCHANGED << chunkerVars, mlxVars, pipeVars, pmVars >>

\* f.write of the entries
SrtWrite ==
    /\ srt_pc = "loop"
    /\ srt_i = Len(srt_chunks)
    /\ srt_pc' = "written"
    /\ UNCHANGED << srt_class, srt_chunks, srt_entries, srt_i >>
    /\ UNCHANGED << fn_chunk, fn_has_meta, fn_merger, fn_out, fn_pc, splitVars, ownVars >>
    /\ UNCHANGED << chunkerVars, mlxVars, pipeVars, pmVars >>

NextSrt ==
    \/ SrtChunk
    \/ SrtWrite

SpecSrt == InitSrt /\ [][NextSrt]_vars

----------------------------------------------------------------------------
(* MLXTranscriber.transcribe_directory: a thread pool over one shared model *)

\* What the engine returns for a chunk: text with the whitespace it comes with
EngineTexts ==
    { << " " >> \o TextA,
      TextBShort,
      << " " >> \o TextBLong \o << "\n" >>,
      TextBSpaced,
      TextOther }

RECURSIVE InsertByIdx(_, _)
\* x put behind the entries of the sorted list whose idx is not larger
InsertByIdx(sorted, x) ==
    IF sorted = << >> THEN << x >>
    ELSE IF Head(sorted)[1] <= x[1]
         THEN << Head(sorted) >> \o InsertByIdx(Tail(sorted), x)
         ELSE << x >> \o sorted

RECURSIVE SortByIdx(_)

\* results.sort(key=lambda x: x[0])
SortByIdx(results) ==
    IF results = << >> THEN << >>
    ELSE InsertByIdx(SortByIdx(SubSeq(results, 1, Len(results) - 1)),
                     results[Len(results)])

\* results = [r[1] for r in results]
ResultDicts(results) == [ k \in 1..Len(results) |-> results[k][2] ]

\* The result of _transcribe_chunk_thread when the engine returns raw
ChunkSuccess(chunk_number, raw) ==
    [ success |-> TRUE, chunk_number |-> chunk_number, text |-> Strip(raw) ]

\* The result of _transcribe_chunk_thread when the engine raises
ChunkFailure(chunk_number) ==
    [ success |-> FALSE, chunk_number |-> chunk_number, text |-> << >> ]

\* The characters of the decimal digits, 0 first
Digits == << "0", "1", "2", "3", "4", "5", "6", "7", "8", "9" >>

IsDigit(c) == \E d \in 1..10 : Digits[d] = c

DigitValue(c) == (CHOOSE d \in 1..10 : Digits[d] = c) - 1

\* f"{chunk_num:03d}" for chunk_num < 1000
Pad3(chunk_num) ==
    << Digits[((chunk_num \div 100) % 10) + 1],
       Digits[((chunk_num \div 10) % 10) + 1],
       Digits[(chunk_num % 10) + 1] >>

\* "chunk_"
ChunkPrefix == << "c", "h", "u", "n", "k", "_" >>

\* ".wav"
WavSuffix == << ".", "w", "a", "v" >>

\* chunk_file.stem of the idx-th chunk file, the key of a checkpoint entry
Stem(idx) == ChunkPrefix \o Pad3(idx)

\* max_workers = max(1, min(cpu_count - 2, 8))
MinWorkers == 1

MaxWorkers == 8

\* completed_count % 10 == 0
CheckpointEvery == 10

\* A thread that retries a chunk once when the engine raises
EngineAttemptsWithRetry(ok) == IF ok THEN 1 ELSE 2

\* The calls of transcribe_file that _transcribe_chunk_thread makes for a
\* chunk: one, in the try, whether it returns (ok) or raises
EngineAttempts(ok) == 1

\* successful_chunks / total_chunks * 100, in whole percents
Percent(successful_chunks, total_chunks) ==
    IF total_chunks > 0 THEN (successful_chunks * 100) \div total_chunks ELSE 0

\* The chunks a checkpoint may record as done before a run over n chunks:
\* any of the first MaxCkptIdx
CheckpointedSets(n) == SUBSET (1..Min(n, MaxCkptIdx))

\* The 'chunks' map of a checkpoint that records the chunks of done, each
\* under its own key with the result an earlier run stored for it
StoredCheckpoint(done) ==
    [ key \in { Stem(idx) : idx \in done } |->
        LET idx == CHOOSE i \in done : Stem(i) = key
        IN  ChunkSuccess(idx, << " " >> \o TextA) ]

\* A run that ignores the checkpoint and transcribes every chunk again
SkippedByNone(idx) == FALSE

\* if chunk_name in processed_chunks: the chunk is not transcribed
Skipped(idx) == Stem(idx) \in DOMAIN processed_chunks

\* A run that leaves its checkpoint file behind
CheckpointKept(file) == file

\* if checkpoint_file and Path(checkpoint_file).exists(): unlink()
CheckpointAfterRun(file) == IF file = "present" THEN "absent" ELSE file

\* The dict comprehension of the checkpoint save: every successful result
\* of results is stored under chunk_file.stem, the key of the chunk whose
\* future was just yielded, so that the last of them is what remains
CheckpointData(idx, results) ==
    LET successful == SelectSeq(results, LAMBDA r : r[2].success)
    IN  IF successful = << >> THEN << >>
        ELSE [ key \in { Stem(idx) } |-> successful[Len(successful)][2] ]

\* sum(1 for r in results if r.get('text', ''))
SuccessfulChunks(results) ==
    Cardinality({ k \in 1..Len(results) : results[k].text # << >> })

InitMLX ==
    /\ PmIdle
    /\ ChunkerIdle
    /\ FnIdle
    /\ PipeIdle
    /\ \/ \* a directory of varied audio, no checkpoint_file argument
          /\ mlx_chunk_files \in 0..MaxMlxChunks
          /\ mlx_bad_chunks = 1..mlx_chunk_files
          /\ mlx_engine_texts = EngineTexts
          /\ max_workers = MaxWorkers
          /\ checkpoint_file = "none"
          /\ checkpoint_data = << >>
       \/ \* a directory of plain audio and a checkpoint_file argument
          /\ mlx_chunk_files \in (1..MaxMlxChunks) \cup { MaxCkptChunks }
          /\ mlx_bad_chunks \in { bad \in SUBSET (1..mlx_chunk_files) :
                                    Cardinality(bad) <= MaxFailedChunks }
          /\ mlx_engine_texts = { TextPlain }
          /\ \E done \in CheckpointedSets(mlx_chunk_files) :
                /\ checkpoint_file = IF done = {} THEN "absent" ELSE "present"
                /\ checkpoint_data = StoredCheckpoint(done)
          /\ max_workers \in IF mlx_chunk_files <= MaxMlxChunks
                             THEN { MinWorkers, MaxWorkers } ELSE { MinWorkers }
    /\ processed_chunks = << >>
    /\ completed_count = 0
    /\ mlx_engine_calls = << >>
    /\ final_result = NoResult
    /\ mlx_has_meta = FALSE
    /\ mlx_total_chunks = 0
    /\ mlx_pending = {}
    /\ mlx_results = << >>
    /\ mlx_merge_arg = << >>
    /\ mlx_combined_text = << >>
    /\ mlx_pc = "ready"

\* transcribe_directory up to the submission of the chunks to the pool: the
\* checkpoint is loaded, the chunks it records are put in results with
\* their stored result and skipped, the others are submitted
MlxSubmitChunks ==
    /\ mlx_pc = "ready"
    /\ mlx_chunk_files > 0
    /\ mlx_total_chunks' = mlx_chunk_files
    /\ \E meta \in BOOLEAN : mlx_has_meta' = meta
    /\ processed_chunks' = IF checkpoint_file = "present" THEN checkpoint_data ELSE << >>
    /\ LET restored == { idx \in 1..mlx_chunk_files : Skipped(idx)' }
           RECURSIVE Restore(_)
           Restore(idx) ==
               IF idx > mlx_chunk_files THEN << >>
               ELSE IF idx \in restored
                    THEN << << idx, processed_chunks'[Stem(idx)] >> >> \o Restore(idx + 1)
                    ELSE Restore(idx + 1)
       IN  /\ mlx_results' = Restore(1)
           /\ mlx_pending' = (1..mlx_chunk_files) \ restored
    /\ completed_count' = 0
    /\ mlx_engine_calls' = [ idx \in 1..mlx_chunk_files |-> 0 ]
    /\ mlx_pc' = "collecting"
    /\ UNCHANGED << mlx_merge_arg, mlx_combined_text, mlxEnv, checkpoint_file,
                    checkpoint_data, final_result >>
    /\ UNCHANGED << chunkerVars, fnVars, pipeVars, pmVars >>

\* transcribe_directory on a directory without chunk files: FileNotFoundError
MlxNoChunkFiles ==
    /\ mlx_pc = "ready"
    /\ mlx_chunk_files = 0
    /\ mlx_pc' = "raised"
    /\ UNCHANGED << mlx_has_meta, mlx_total_chunks, mlx_pending, mlx_results,
                    mlx_merge_arg, mlx_combined_text, mlxEnv, checkpoint_file,
                    checkpoint_data, processed_chunks, completed_count,
                    mlx_engine_calls, final_result >>
    /\ UNCHANGED << chunkerVars, fnVars, pipeVars, pmVars >>

\* The pool runs max_workers threads over the submitted chunks, oldest
\* first: the future of chunk idx can be finished when fewer than
\* max_workers chunks submitted before it are unfinished
CanComplete(idx) ==
    /\ idx \in mlx_pending
    /\ Cardinality({ k \in mlx_pending : k < idx }) < max_workers

\* The body of the as_completed loop for the future of chunk idx, which
\* returned chunk_result after attempts calls of the engine: the result is
\* appended, and on every tenth completion of the run the checkpoint is
\* saved; when the save raises, the except branch appends a second entry
\* for the chunk, without text
MlxCollect(idx, chunk_result, attempts) ==
    LET count == completed_count + 1
        appended == Append(mlx_results, << idx, chunk_result >>)
        due == checkpoint_file # "none" /\ count % CheckpointEvery = 0
    IN  /\ completed_count' = count
        /\ mlx_pending' = mlx_pending \ { idx }
        /\ mlx_engine_calls' = [ mlx_engine_calls EXCEPT ![idx] = @ + attempts ]
        /\ \/ /\ ~due
              /\ mlx_results' = appended
              /\ UNCHANGED << checkpoint_file, checkpoint_data >>
           \/ /\ due
              /\ mlx_results' = appended
              /\ checkpoint_file' = "present"
              /\ checkpoint_data' = CheckpointData(idx, appended)
           \/ /\ due
              /\ mlx_results' = Append(appended, << idx, ChunkFailure(idx) >>)
              /\ UNCHANGED << checkpoint_file, checkpoint_data >>
        /\ UNCHANGED << mlx_has_meta, mlx_total_chunks, mlx_merge_arg,
                        mlx_combined_text, mlx_pc, mlxEnv, processed_chunks,
                        final_result >>
        /\ UNCHANGED << chunkerVars, fnVars, pipeVars, pmVars >>

\* as_completed yields the future of chunk idx, whose engine call returned
MlxChunkCompleted ==
    /\ mlx_pc = "collecting"
    /\ \E idx \in mlx_pending, raw \in mlx_engine_texts :
          /\ CanComplete(idx)
          /\ MlxCollect(idx, ChunkSuccess(idx, raw), EngineAttempts(TRUE))

\* as_completed yields the future of chunk idx, whose engine call raised
MlxChunkFailed ==
    /\ mlx_pc = "collecting"
    /\ \E idx \in mlx_pending :
          /\ CanComplete(idx)
          /\ idx \in mlx_bad_chunks
          /\ MlxCollect(idx, ChunkFailure(idx), EngineAttempts(FALSE))

\* After the pool: sort, merge, statistics, write the transcript, remove
\* the checkpoint file
MlxMergeAndSave ==
    /\ mlx_pc = "collecting"
    /\ mlx_pending = {}
    /\ LET sorted == ResultDicts(SortByIdx(mlx_results))
       IN  /\ mlx_results' = sorted
           /\ mlx_merge_arg' = sorted
           /\ mlx_combined_text' = MergeChunks(sorted, mlx_has_meta)
           /\ final_result' =
                 [ total_chunks |-> mlx_total_chunks,
                   successful_chunks |-> SuccessfulChunks(sorted),
                   success_rate |-> Percent(SuccessfulChunks(sorted), mlx_total_chunks) ]
    /\ checkpoint_file' = CheckpointAfterRun(checkpoint_file)
    /\ checkpoint_data' = IF checkpoint_file' = "present" THEN checkpoint_data ELSE << >>
    /\ mlx_pc' = "done"
    /\ UNCHANGED << mlx_has_meta, mlx_total_chunks, mlx_pending, mlxEnv,
                    processed_chunks, completed_count, mlx_engine_calls >>
    /\ UNCHANGED << chunkerVars, fnVars, pipeVars, pmVars >>

\* After the pool, writing the transcript fails: open() raises out of
\* transcribe_directory; nothing is written and the checkpoint file is not
\* removed
MlxWriteRaises ==
    /\ mlx_pc = "collecting"
    /\ mlx_pending = {}
    /\ mlx_pc' = "raised"
    /\ UNCHANGED << mlx_has_meta, mlx_total_chunks, mlx_pending, mlx_results,
                    mlx_merge_arg, mlx_combined_text, mlxEnv, checkpoint_file,
                    checkpoint_data, processed_chunks, completed_count,
                    mlx_engine_calls, final_result >>
    /\ UNCHANGED << chunkerVars, fnVars, pipeVars, pmVars >>

NextMLX ==
    \/ MlxSubmitChunks
    \/ MlxNoChunkFiles
    \/ MlxChunkCompleted
    \/ MlxChunkFailed
    \/ MlxMergeAndSave
    \/ MlxWriteRaises

SpecMLX == InitMLX /\ [][NextMLX]_vars

----------------------------------------------------------------------------
(* HybridMLXTranscriber.transcribe_directory: worker processes over the    *)
(* chunk files of one job                                                  *)

\* num_transcribe_processes: int = 2
NumProcesses == 2

\* str(output_path / f"chunk_{chunk_num:03d}.wav"): the path of a chunk file
ChunkFile(input_dir, chunk_num) ==
    input_dir \o << "/" >> \o ChunkPrefix \o Pad3(chunk_num) \o WavSuffix

\* The temp_base arguments of the model: "tmp" and "run/chunk_7"
TempBases ==
    { << "t", "m", "p" >>,
      << "r", "u", "n", "/", "c", "h", "u", "n", "k", "_", "7" >> }

\* str(temp_base / f"job_{job_id}" / "chunks") for job_id < 10
ChunksDir(base, job_id) ==
    base \o << "/", "j", "o", "b", "_", Digits[job_id + 1] >>
         \o << "/", "c", "h", "u", "n", "k", "s" >>

RECURSIVE ReadInt(_, _, _)
\* int() of the run of digits of s that starts at position i
ReadInt(s, i, acc) ==
    IF i <= Len(s) /\ IsDigit(s[i])
    THEN ReadInt(s, i + 1, acc * 10 + DigitValue(s[i]))
    ELSE acc

\* _extract_chunk_number: re.search(r'chunk_(\d+)', filename) finds the
\* leftmost "chunk_" that a digit follows; int() of its digits, 0 if none
ExtractChunkNumber(filename) ==
    LET starts == { i \in 1..(Len(filename) - 6) :
                      /\ SubSeq(filename, i, i + 5) = ChunkPrefix
                      /\ IsDigit(filename[i + 6]) }
    IN  IF starts = {} THEN 0
        ELSE ReadInt(filename, (CHOOSE i \in starts : \A m \in starts : i <= m) + 6, 0)

\* _split_chunks: chunk_files[i] goes to subsets[i % num_groups]; the chunk
\* numbers of group process_id (1-based), in file order
SplitChunks(total_chunks, groups, process_id) ==
    LET mine(k) == GroupOf(k - 1, groups) + 1 = process_id
        RECURSIVE From(_)
        From(k) == IF k > total_chunks THEN << >>
                   ELSE IF mine(k) THEN << k >> \o From(k + 1) ELSE From(k + 1)
    IN  From(1)

\* What the engine returns for chunk chunk_num of a pipeline job
PipelineEngineText(chunk_num) ==
    IF chunk_num = 1 THEN << " " >> \o TextA
    ELSE IF chunk_num = 2 THEN TextBLong
    ELSE TextOther

\* The entry _process_worker_function appends for a chunk
WorkerResult(input_dir, chunk_num, ok) ==
    IF ok
    THEN [ success |-> TRUE, file |-> ChunkFile(input_dir, chunk_num),
           text |-> Strip(PipelineEngineText(chunk_num)) ]
    ELSE [ success |-> FALSE, file |-> ChunkFile(input_dir, chunk_num), text |-> << >> ]

RECURSIVE InsertByChunkNumber(_, _)
InsertByChunkNumber(sorted, x) ==
    IF sorted = << >> THEN << x >>
    ELSE IF ExtractChunkNumber(Head(sorted).file) <= ExtractChunkNumber(x.file)
         THEN << Head(sorted) >> \o InsertByChunkNumber(Tail(sorted), x)
         ELSE << x >> \o sorted

RECURSIVE SortByChunkNumber(_)
\* all_results.sort(key=lambda x: self._extract_chunk_number(x['file']))
SortByChunkNumber(results) ==
    IF results = << >> THEN << >>
    ELSE InsertByChunkNumber(SortByChunkNumber(SubSeq(results, 1, Len(results) - 1)),
                             results[Len(results)])

\* sum(1 for r in all_results if r['success'])
HySuccessfulChunks(results) ==
    Cardinality({ k \in 1..Len(results) : results[k].success })

\* A worker process returns success with a result for each chunk of its
\* subset; the engine raised on the chunks of failed_chunks.
HyProcessReturns ==
    /\ hy_pc = "collecting"
    /\ \E process_id \in hy_futures :
          LET subset == SplitChunks(hy_total_chunks, NumProcesses, process_id)
              chunk_nums == { subset[k] : k \in 1..Len(subset) }
          IN  /\ subset # << >>
              /\ \E failed_chunks \in SUBSET chunk_nums :
                    /\ all_results' = all_results \o
                          [ k \in 1..Len(subset) |->
                              WorkerResult(hy_input_dir, subset[k],
                                           subset[k] \notin failed_chunks) ]
                    /\ hy_engine_calls' =
                          [ chunk_num \in DOMAIN hy_engine_calls |->
                              IF chunk_num \in chunk_nums
                              THEN hy_engine_calls[chunk_num]
                                       + EngineAttempts(chunk_num \notin failed_chunks)
                              ELSE hy_engine_calls[chunk_num] ]
              /\ hy_futures' = hy_futures \ { process_id }
    /\ UNCHANGED << hy_input_dir, hy_total_chunks, hy_merge_arg, hy_combined_text, hy_pc >>
    /\ UNCHANGED hy_final_result
    /\ UNCHANGED << batchVars, chunkerVars, fnVars, mlxVars, pmVars >>

\* A worker process whose subset is empty (fewer chunks than processes)
\* divides by zero in its summary line; its outer except returns success
\* False with no results.
HyProcessFatal ==
    /\ hy_pc = "collecting"
    /\ \E process_id \in hy_futures :
          /\ SplitChunks(hy_total_chunks, NumProcesses, process_id) = << >>
          /\ hy_futures' = hy_futures \ { process_id }
    /\ UNCHANGED << hy_input_dir, hy_total_chunks, all_results, hy_merge_arg,
                    hy_combined_text, hy_pc >>
    /\ UNCHANGED << hy_engine_calls, hy_final_result >>
    /\ UNCHANGED << batchVars, chunkerVars, fnVars, mlxVars, pmVars >>

\* A worker process dies: future.result() raises, which is logged.
HyProcessException ==
    /\ hy_pc = "collecting"
    /\ \E process_id \in hy_futures :
          hy_futures' = hy_futures \ { process_id }
    /\ UNCHANGED << hy_input_dir, hy_total_chunks, all_results, hy_merge_arg,
                    hy_combined_text, hy_pc >>
    /\ UNCHANGED << hy_engine_calls, hy_final_result >>
    /\ UNCHANGED << batchVars, chunkerVars, fnVars, mlxVars, pmVars >>

----------------------------------------------------------------------------
(* PipelineTranscriber.process_batch *)

\* max_preprocess_workers: int = 2
MaxPreprocessWorkers == 2

\* job.status = "preprocessing"
StatusOnSubmit == "preprocessing"

\* A faulty step: the job is completed without having been transcribed
StatusOnPreprocessedSkipsStage == "completed"

\* job.status = "transcribing"
StatusOnPreprocessed == "transcribing"

\* job.status = "completed"
StatusOnTranscribed == "completed"

\* A faulty step: a job whose preprocessing failed goes on to transcription
StatusOnPreprocessFailedGoesOn == "transcribing"

\* job.status = "failed"
StatusOnPreprocessFailed == "failed"

\* job.error = preprocess_result.get('error', 'Unknown error')
PreprocessError == "preprocess error"

\* The success entry of results has no 'error'
NoError == "none"

Jobs == DOMAIN job_status

\* A faulty loop: a job is taken up while the transcription of another runs
MainThreadWaitsOrTranscribes == batch_pc \in { "waiting", "transcribing" }

\* The main thread is at "for future in as_completed(preprocess_futures)":
\* transcribe_worker.transcribe is a synchronous call inside the loop body
MainThreadWaits == batch_pc = "waiting"

\* The orders in which s can be listed
Reorderings(s) ==
    { [ i \in 1..Len(s) |-> s[f[i]] ] : f \in Permutations(1..Len(s)) }

SetStatus(j, st) ==
    /\ job_status' = [ job_status EXCEPT ![j] = st ]
    /\ job_trail' = [ job_trail EXCEPT ![j] = Append(@, st) ]

InitPipe ==
    /\ PmIdle
    /\ ChunkerIdle
    /\ FnIdle
    /\ MlxIdle
    /\ job_status = << >>
    /\ job_trail = << >>
    /\ preprocess_futures = << >>
    /\ completed_order = << >>
    /\ batch_results = << >>
    /\ batch_pc = "ready"
    /\ current_job = 0
    /\ raised_job = 0
    /\ temp_base = << >>
    /\ prep_finished = << >>
    /\ transcribe_started = << >>
    /\ hy_input_dir = << >>
    /\ hy_total_chunks = 0
    /\ hy_futures = {}
    /\ all_results = << >>
    /\ hy_merge_arg = << >>
    /\ hy_combined_text = << >>
    /\ hy_pc = "idle"
    /\ hy_engine_calls = << >>
    /\ hy_final_result = NoResult

\* process_batch creates a job, status "pending", for every file pair
CreateJobs ==
    /\ batch_pc = "ready"
    /\ temp_base' \in TempBases
    /\ \E n \in 1..MaxJobs :
          /\ job_status' = [ j \in 1..n |-> "pending" ]
          /\ job_trail' = [ j \in 1..n |-> << "pending" >> ]
          /\ preprocess_futures' = [ j \in 1..n |-> "none" ]
    /\ batch_pc' = "submitting"
    /\ UNCHANGED << completed_order, batch_results, current_job, raised_job >>
    /\ UNCHANGED << prep_finished, transcribe_started >>
    /\ UNCHANGED << hybridVars, chunkerVars, fnVars, mlxVars, pmVars >>

\* The submit loop: the next job's preprocessing goes to the pool
SubmitPreprocess ==
    /\ batch_pc = "submitting"
    /\ \E j \in Jobs :
          /\ preprocess_futures[j] = "none"
          /\ \A i \in Jobs : i < j => preprocess_futures[i] # "none"
          /\ preprocess_futures' = [ preprocess_futures EXCEPT ![j] = "queued" ]
          /\ SetStatus(j, StatusOnSubmit)
          /\ batch_pc' = IF j = Len(job_status) THEN "submitted" ELSE "submitting"
    /\ UNCHANGED << completed_order, batch_results, current_job, raised_job >>
    /\ UNCHANGED temp_base
    /\ UNCHANGED << prep_finished, transcribe_started >>
    /\ UNCHANGED << hybridVars, chunkerVars, fnVars, mlxVars, pmVars >>

\* The main thread creates the transcribe worker and calls as_completed,
\* which first yields the futures that have already finished, taken from a
\* set and so in any order, and after them the others as they finish
AsCompletedCalled ==
    /\ batch_pc = "submitted"
    /\ completed_order' \in Reorderings(completed_order)
    /\ batch_pc' = "waiting"
    /\ UNCHANGED << job_status, job_trail, preprocess_futures, batch_results,
                    current_job, raised_job, temp_base, prep_finished,
                    transcribe_started >>
    /\ UNCHANGED << hybridVars, chunkerVars, fnVars, mlxVars, pmVars >>

\* A free pool process takes the oldest queued preprocessing
PreprocessStarts ==
    /\ \E j \in Jobs :
          /\ preprocess_futures[j] = "queued"
          /\ \A i \in Jobs : i < j => preprocess_futures[i] # "queued"
          /\ Cardinality({ i \in Jobs : preprocess_futures[i] = "running" })
                < MaxPreprocessWorkers
          /\ preprocess_futures' = [ preprocess_futures EXCEPT ![j] = "running" ]
    /\ UNCHANGED << job_status, job_trail, completed_order, batch_results,
                    batch_pc, current_job, raised_job >>
    /\ UNCHANGED temp_base
    /\ UNCHANGED << prep_finished, transcribe_started >>
    /\ UNCHANGED << hybridVars, chunkerVars, fnVars, mlxVars, pmVars >>

\* _preprocess_worker_function returns: success, or success False with the
\* error of the enhancement or chunking that raised
PreprocessReturns ==
    /\ \E j \in Jobs, outcome \in { "ok", "failed" } :
          /\ preprocess_futures[j] = "running"
          /\ preprocess_futures' = [ preprocess_futures EXCEPT ![j] = outcome ]
          /\ completed_order' = Append(completed_order, j)
          /\ prep_finished' = Append(prep_finished, j)
    /\ UNCHANGED << job_status, job_trail, batch_results, batch_pc, current_job,
                    raised_job >>
    /\ UNCHANGED temp_base
    /\ UNCHANGED transcribe_started
    /\ UNCHANGED << hybridVars, chunkerVars, fnVars, mlxVars, pmVars >>

\* The pool process running a preprocessing dies: its future holds an
\* exception
PreprocessDies ==
    /\ \E j \in Jobs :
          /\ preprocess_futures[j] = "running"
          /\ preprocess_futures' = [ preprocess_futures EXCEPT ![j] = "broken" ]
          /\ completed_order' = Append(completed_order, j)
          /\ prep_finished' = Append(prep_finished, j)
    /\ UNCHANGED << job_status, job_trail, batch_results, batch_pc, current_job,
                    raised_job >>
    /\ UNCHANGED temp_base
    /\ UNCHANGED transcribe_started
    /\ UNCHANGED << hybridVars, chunkerVars, fnVars, mlxVars, pmVars >>

\* as_completed yields a job whose preprocessing succeeded: the job goes
\* to "transcribing" and transcribe_directory hands its chunk files to the
\* worker processes
TranscribeStarts ==
    /\ MainThreadWaits
    /\ completed_order # << >>
    /\ LET j == Head(completed_order)
       IN  /\ preprocess_futures[j] = "ok"
           /\ preprocess_futures' = [ preprocess_futures EXCEPT ![j] = "taken" ]
           /\ SetStatus(j, StatusOnPreprocessed)
           /\ current_job' = j
           /\ transcribe_started' = Append(transcribe_started, j)
           /\ hy_input_dir' = ChunksDir(temp_base, j)
    /\ completed_order' = Tail(completed_order)
    /\ \E n \in 1..MaxPipeChunks : hy_total_chunks' = n
    /\ hy_futures' = 1..NumProcesses
    /\ hy_engine_calls' = [ chunk_num \in 1..hy_total_chunks' |-> 0 ]
    /\ hy_final_result' = NoResult
    /\ all_results' = << >>
    /\ hy_merge_arg' = << >>
    /\ hy_combined_text' = << >>
    /\ hy_pc' = "collecting"
    /\ batch_pc' = "transcribing"
    /\ UNCHANGED << batch_results, raised_job >>
    /\ UNCHANGED temp_base
    /\ UNCHANGED prep_finished
    /\ UNCHANGED << chunkerVars, fnVars, mlxVars, pmVars >>

\* as_completed yields a job whose preprocessing succeeded with no chunk
\* file written: transcribe_directory raises ValueError, which process_batch
\* does not catch
TranscribeNoChunks ==
    /\ MainThreadWaits
    /\ completed_order # << >>
    /\ LET j == Head(completed_order)
       IN  /\ preprocess_futures[j] = "ok"
           /\ preprocess_futures' = [ preprocess_futures EXCEPT ![j] = "taken" ]
           /\ SetStatus(j, StatusOnPreprocessed)
           /\ current_job' = j
           /\ transcribe_started' = Append(transcribe_started, j)
           /\ raised_job' = j
           /\ hy_input_dir' = ChunksDir(temp_base, j)
    /\ completed_order' = Tail(completed_order)
    /\ hy_total_chunks' = 0
    /\ hy_futures' = {}
    /\ hy_engine_calls' = << >>
    /\ hy_final_result' = NoResult
    /\ all_results' = << >>
    /\ hy_merge_arg' = << >>
    /\ hy_combined_text' = << >>
    /\ hy_pc' = "raised"
    /\ batch_pc' = "raised"
    /\ UNCHANGED << batch_results >>
    /\ UNCHANGED temp_base
    /\ UNCHANGED prep_finished
    /\ UNCHANGED << chunkerVars, fnVars, mlxVars, pmVars >>

\* as_completed yields a job whose preprocessing returned success False
PreprocessFailed ==
    /\ MainThreadWaits
    /\ completed_order # << >>
    /\ LET j == Head(completed_order)
       IN  /\ preprocess_futures[j] = "failed"
           /\ preprocess_futures' = [ preprocess_futures EXCEPT ![j] = "taken" ]
           /\ SetStatus(j, StatusOnPreprocessFailed)
           /\ batch_results' = Append(batch_results,
                  [ job_id |-> j, success |-> FALSE, error |-> PreprocessError ])
    /\ completed_order' = Tail(completed_order)
    /\ UNCHANGED << batch_pc, current_job, raised_job >>
    /\ UNCHANGED temp_base
    /\ UNCHANGED << prep_finished, transcribe_started >>
    /\ UNCHANGED << hybridVars, chunkerVars, fnVars, mlxVars, pmVars >>

\* as_completed yields a job whose pool process died: future.result()
\* raises, which process_batch does not catch
FutureResultRaises ==
    /\ MainThreadWaits
    /\ completed_order # << >>
    /\ LET j == Head(completed_order)
       IN  /\ preprocess_futures[j] = "broken"
           /\ preprocess_futures' = [ preprocess_futures EXCEPT ![j] = "taken" ]
           /\ raised_job' = j
    /\ completed_order' = Tail(completed_order)
    /\ batch_pc' = "raised"
    /\ UNCHANGED << job_status, job_trail, batch_results, current_job >>
    /\ UNCHANGED temp_base
    /\ UNCHANGED << prep_finished, transcribe_started >>
    /\ UNCHANGED << hybridVars, chunkerVars, fnVars, mlxVars, pmVars >>

\* Every worker process is collected: transcribe_directory sorts, merges and
\* writes the transcript and returns; process_batch sets the job to
\* "completed" and appends its result
TranscribeReturns ==
    /\ batch_pc = "transcribing"
    /\ hy_pc = "collecting"
    /\ hy_futures = {}
    /\ LET sorted == SortByChunkNumber(all_results)
       IN  /\ all_results' = sorted
           /\ hy_merge_arg' = sorted
           /\ hy_combined_text' = MergeResults(sorted)
           /\ hy_final_result' =
                 [ total_chunks |-> hy_total_chunks,
                   successful_chunks |-> HySuccessfulChunks(sorted),
                   success_rate |-> Percent(HySuccessfulChunks(sorted), hy_total_chunks) ]
    /\ hy_pc' = "done"
    /\ SetStatus(current_job, StatusOnTranscribed)
    /\ batch_results' = Append(batch_results,
          [ job_id |-> current_job, success |-> TRUE, error |-> NoError ])
    /\ batch_pc' = "waiting"
    /\ UNCHANGED << preprocess_futures, completed_order, current_job, raised_job >>
    /\ UNCHANGED << hy_input_dir, hy_total_chunks, hy_futures >>
    /\ UNCHANGED temp_base
    /\ UNCHANGED << prep_finished, transcribe_started >>
    /\ UNCHANGED hy_engine_calls
    /\ UNCHANGED << chunkerVars, fnVars, mlxVars, pmVars >>

\* Every worker process is collected and writing the transcript fails (the
\* directory of output_file does not exist, the disk is full): open() raises
\* out of transcribe_directory and out of process_batch
TranscribeWriteRaises ==
    /\ batch_pc = "transcribing"
    /\ hy_pc = "collecting"
    /\ hy_futures = {}
    /\ LET sorted == SortByChunkNumber(all_results)
       IN  /\ all_results' = sorted
           /\ hy_merge_arg' = sorted
           /\ hy_combined_text' = MergeResults(sorted)
    /\ hy_pc' = "raised"
    /\ raised_job' = current_job
    /\ batch_pc' = "raised"
    /\ UNCHANGED << job_status, job_trail, preprocess_futures, completed_order,
                    batch_results, current_job >>
    /\ UNCHANGED << hy_input_dir, hy_total_chunks, hy_futures >>
    /\ UNCHANGED temp_base
    /\ UNCHANGED << prep_finished, transcribe_started >>
    /\ UNCHANGED << hy_engine_calls, hy_final_result >>
    /\ UNCHANGED << chunkerVars, fnVars, mlxVars, pmVars >>

\* as_completed has yielded every future: process_batch returns results
BatchReturns ==
    /\ MainThreadWaits
    /\ \A j \in Jobs : preprocess_futures[j] = "taken"
    /\ batch_pc' = "returned"
    /\ UNCHANGED << job_status, job_trail, preprocess_futures, completed_order,
                    batch_results, current_job, raised_job >>
    /\ UNCHANGED temp_base
    /\ UNCHANGED << prep_finished, transcribe_started >>
    /\ UNCHANGED << hybridVars, chunkerVars, fnVars, mlxVars, pmVars >>

NextPipe ==
    \/ CreateJobs
    \/ SubmitPreprocess
    \/ AsCompletedCalled
    \/ PreprocessStarts
    \/ PreprocessReturns
    \/ PreprocessDies
    \/ TranscribeStarts
    \/ TranscribeNoChunks
    \/ PreprocessFailed
    \/ FutureResultRaises
    \/ HyProcessReturns
    \/ HyProcessFatal
    \/ HyProcessException
    \/ TranscribeReturns
    \/ TranscribeWriteRaises
    \/ BatchReturns

SpecPipe == InitPipe /\ [][NextPipe]_vars

\* Both transcribers: a job transcribed by MLXTranscriber, or a batch of
\* pipeline jobs transcribed by HybridMLXTranscriber
SpecJobs == (InitMLX \/ InitPipe) /\ [][NextMLX \/ NextPipe]_vars

----------------------------------------------------------------------------
(* ProcessManager (lib/process_manager.py) over the job ledger              *)
(* (app/database.py)                                                        *)

PmJobs == 1..MaxPmJobs

\* pid = NULL in the ledger; no entry in self._processes
Null == 0

\* status in ['completed', 'failed', 'cancelled']
LedgerTerminal == { "completed", "failed", "cancelled" }

\* get_orphaned_jobs(timeout_seconds=60) in _check_orphans
OrphanTimeout == 60

\* get_orphaned_jobs(timeout_seconds=120) in cleanup_stale_jobs
StaleTimeout == 120

\* stop_process(job_id, timeout=10.0): the seconds of process.wait(timeout)
GracefulTimeout == 10

\* process.wait(timeout=5) after process.kill()
KillTimeout == 5

\* heartbeat IS NULL; a row's heartbeat is otherwise kept as the seconds
\* that have passed since the timestamp written to the column
NoHeartbeat == -1

\* error_message IS NULL
NoErrorMessage == "none"

\* The error text of cleanup_stale_jobs
NoHeartbeatError == "Process terminated unexpectedly (no heartbeat)"

\* The reason stop_process gives to cancel_job
CancelledByUser == "Cancelled by user"

\* The error text the application gives to fail_job
AppError == "error"

\* The clock is read in steps of this many seconds; the heartbeat loop,
\* which sleeps self._heartbeat_interval = 5 seconds, runs between any two
TickSeconds == OrphanTimeout

\* Past this age a heartbeat is older than every timeout
AgeCap == StaleTimeout + TickSeconds

\* create_job: a row in status 'pending'
NewRow == [ status |-> "pending", pid |-> Null, heartbeat |-> NoHeartbeat,
            error_message |-> NoErrorMessage ]

\* update_job_status(job_id, status, pid=pid)
UpdateJobStatus(rows, job_id, status, pid) ==
    [ rows EXCEPT ![job_id] =
        [ status |-> status,
          pid |-> IF status \in LedgerTerminal THEN Null
                  ELSE IF pid # Null THEN pid ELSE @.pid,
          heartbeat |-> IF status = "processing" THEN 0 ELSE @.heartbeat,
          error_message |-> @.error_message ] ]

\* complete_job(job_id, ...): the pid column is not written
CompleteJob(rows, job_id) == [ rows EXCEPT ![job_id].status = "completed" ]

\* fail_job(job_id, error_message): the pid column is not written
FailJob(rows, job_id) ==
    [ rows EXCEPT ![job_id].status = "failed",
                  ![job_id].error_message = AppError ]

\* cancel_job(job_id, "Cancelled by user")
CancelJob(rows, job_id) ==
    [ rows EXCEPT ![job_id].status = "cancelled",
                  ![job_id].error_message = CancelledByUser,
                  ![job_id].pid = Null ]

\* update_heartbeat(job_id): heartbeat = CURRENT_TIMESTAMP
UpdateHeartbeat(rows, job_id) == [ rows EXCEPT ![job_id].heartbeat = 0 ]

\* get_orphaned_jobs(timeout_seconds): the rows in status 'processing'
\* whose heartbeat is NULL or older than the timeout
GetOrphanedJobs(rows, timeout_seconds) ==
    { job_id \in PmJobs :
        /\ rows[job_id].status = "processing"
        /\ \/ rows[job_id].heartbeat = NoHeartbeat
           \/ rows[job_id].heartbeat > timeout_seconds }

\* A faulty cleanup: only the rows whose pid is of a process
\* that is there are set to 'failed'
CleanupStaleJobsOfLivePids(rows) ==
    [ job_id \in PmJobs |->
        IF /\ job_id \in GetOrphanedJobs(rows, StaleTimeout)
           /\ rows[job_id].pid # Null
           /\ os_procs[rows[job_id].pid].state = "running"
        THEN [ status |-> "failed", pid |-> Null,
               heartbeat |-> rows[job_id].heartbeat,
               error_message |-> NoHeartbeatError ]
        ELSE rows[job_id] ]

\* cleanup_stale_jobs(): every row get_orphaned_jobs(120) returns is set
\* to 'failed'
CleanupStaleJobs(rows) ==
    [ job_id \in PmJobs |->
        IF job_id \in GetOrphanedJobs(rows, StaleTimeout)
        THEN [ status |-> "failed", pid |-> Null,
               heartbeat |-> rows[job_id].heartbeat,
               error_message |-> NoHeartbeatError ]
        ELSE rows[job_id] ]

\* job_id in self._processes
Tracked(job_id) == processes[job_id] # Null

\* proc_info.process.poll() is None, for a tracked job
Polls(job_id) == os_procs[processes[job_id]].state = "running"

\* self._cleanup_process(job_id)
CleanupProcess(tracked, job_id) == [ tracked EXCEPT ![job_id] = Null ]

\* No call of stop_process is past its first checks
StopIdle == [ job_id |-> Null, pid |-> Null, pc |-> "idle",
              sent |-> << >>, waits |-> << >> ]

\* stop_process(job_id) returns returned; tracked tells whether the job was
\* in self._processes when it was called, waits the timeouts of the waits
\* the call has been in
StopReturns(job_id, tracked, returned) ==
    stop_calls' = Append(stop_calls,
        [ job_id |-> job_id, tracked |-> tracked, returned |-> returned,
          waits |-> stop_call.waits ])

\* A faulty wait: one without a timeout, which never raises TimeoutExpired
WaitNeverExpires(pid) == FALSE

\* A faulty wait: TimeoutExpired whether the process ended or not
WaitExpiredAlways(pid) == TRUE

\* process.wait(timeout) raises TimeoutExpired: the process pid has not
\* ended when the timeout has passed
WaitExpired(pid) == os_procs[pid].state = "running"

\* process.wait(timeout) returns: the process pid has ended
WaitReturns(pid) == os_procs[pid].state # "running"

\* The process pid is in state
SetState(pid, state) == [ os_procs EXCEPT ![pid].state = state ]

\* What the supervisor finds of a job another instance of the application
\* left in status 'processing': its process, not started by this one
Orphans ==
    { << >> } \cup
    { << [ job_id |-> job_id, state |-> "running", own |-> FALSE,
           reader |-> FALSE ] >> :
        job_id \in PmJobs }

InitPM ==
    /\ ChunkerIdle
    /\ FnIdle
    /\ MlxIdle
    /\ PipeIdle
    /\ os_procs \in Orphans
    /\ ledger = [ job_id \in PmJobs |->
                    IF os_procs # << >> /\ os_procs[1].job_id = job_id
                    THEN [ status |-> "processing", pid |-> 1, heartbeat |-> 0,
                           error_message |-> NoErrorMessage ]
                    ELSE NewRow ]
    /\ processes = [ job_id \in PmJobs |-> Null ]
    /\ stop_calls = << >>
    /\ stop_call = StopIdle
    /\ hb_pc = "slept"
    /\ scan_signalled = {}

\* start_process(job_id, cmd): Popen, self._processes[job_id] = proc_info,
\* the thread of _read_process_output is started (reader),
\* update_job_status(job_id, 'processing', pid), whose failure is logged
StartProcess ==
    /\ Len(os_procs) < MaxPids
    /\ \E job_id \in PmJobs :
          LET pid == Len(os_procs) + 1
          IN  /\ os_procs' = Append(os_procs, [ job_id |-> job_id, state |-> "running",
                                              own |-> TRUE, reader |-> TRUE ])
              /\ processes' = [ processes EXCEPT ![job_id] = pid ]
              /\ \/ ledger' = UpdateJobStatus(ledger, job_id, "processing", pid)
                 \/ UNCHANGED ledger
    /\ UNCHANGED << stop_calls, stop_call, hb_pc, scan_signalled >>
    /\ UNCHANGED << chunkerVars, fnVars, mlxVars, pipeVars >>

\* _parse_progress, in the thread that reads the output of a process of
\* this supervisor: update_job_status(job_id, 'processing', progress)
ParseProgress ==
    /\ \E job_id \in PmJobs :
          /\ Tracked(job_id)
          /\ Polls(job_id)
          /\ ledger' = UpdateJobStatus(ledger, job_id, "processing", Null)
    /\ UNCHANGED << processes, os_procs, stop_calls, stop_call, hb_pc, scan_signalled >>
    /\ UNCHANGED << chunkerVars, fnVars, mlxVars, pipeVars >>

\* A process ends, by itself or on a signal, with return code 0 or not
ProcessExits ==
    /\ \E pid \in 1..Len(os_procs), state \in { "succeeded", "failed" } :
          /\ os_procs[pid].state = "running"
          /\ os_procs' = SetState(pid, state)
    /\ UNCHANGED << ledger, processes, stop_calls, stop_call, hb_pc, scan_signalled >>
    /\ UNCHANGED << chunkerVars, fnVars, mlxVars, pipeVars >>

\* The application sees the process it has started ended (web_app.py) and
\* writes the outcome to the ledger: complete_job or fail_job
JobFinished ==
    /\ \E pid \in 1..Len(os_procs) :
          LET job_id == os_procs[pid].job_id
          IN  /\ os_procs[pid].own
              /\ os_procs[pid].state # "running"
              /\ ledger[job_id].status \in { "pending", "processing" }
              /\ ledger' = IF os_procs[pid].state = "succeeded"
                           THEN CompleteJob(ledger, job_id)
                           ELSE FailJob(ledger, job_id)
    /\ UNCHANGED << processes, os_procs, stop_calls, stop_call, hb_pc, scan_signalled >>
    /\ UNCHANGED << chunkerVars, fnVars, mlxVars, pipeVars >>

\* stop_process(job_id) for a job that is not tracked: returns False
StopNotTracked ==
    /\ Len(stop_calls) < MaxStops
    /\ stop_call = StopIdle
    /\ \E job_id \in PmJobs :
          /\ ~Tracked(job_id)
          /\ StopReturns(job_id, FALSE, FALSE)
    /\ UNCHANGED << ledger, processes, os_procs, stop_call, hb_pc, scan_signalled >>
    /\ UNCHANGED << chunkerVars, fnVars, mlxVars, pipeVars >>

\* stop_process(job_id) when process.poll() is not None: the process has
\* already terminated; the record is removed and True returned
StopAlreadyTerminated ==
    /\ Len(stop_calls) < MaxStops
    /\ stop_call = StopIdle
    /\ \E job_id \in PmJobs :
          /\ Tracked(job_id)
          /\ ~Polls(job_id)
          /\ processes' = CleanupProcess(processes, job_id)
          /\ StopReturns(job_id, TRUE, TRUE)
    /\ UNCHANGED << ledger, os_procs, stop_call, hb_pc, scan_signalled >>
    /\ UNCHANGED << chunkerVars, fnVars, mlxVars, pipeVars >>

\* stop_process(job_id) on a running process: process.terminate() sends
\* SIGTERM and process.wait(timeout=timeout) begins
StopSendsTerm ==
    /\ Len(stop_calls) < MaxStops
    /\ stop_call = StopIdle
    /\ \E job_id \in PmJobs :
          /\ Tracked(job_id)
          /\ Polls(job_id)
          /\ stop_call' = [ job_id |-> job_id, pid |-> processes[job_id],
                            pc |-> "wait", sent |-> << "SIGTERM" >>,
                            waits |-> << GracefulTimeout >> ]
    /\ UNCHANGED << ledger, processes, os_procs, stop_calls, hb_pc, scan_signalled >>
    /\ UNCHANGED << chunkerVars, fnVars, mlxVars, pipeVars >>

\* The end of stop_process once a wait has returned: proc_info.status =
\* "cancelled", the record of job_id is removed, cancel_job is called,
\* whose failure is logged, and True returned
StopFinishes ==
    /\ processes' = CleanupProcess(processes, stop_call.job_id)
    /\ \/ ledger' = CancelJob(ledger, stop_call.job_id)
       \/ UNCHANGED ledger
    /\ StopReturns(stop_call.job_id, TRUE, TRUE)
    /\ stop_call' = StopIdle

\* process.wait(timeout=timeout) returns: the process ended within the wait
StopWaitReturns ==
    /\ stop_call.pc = "wait"
    /\ WaitReturns(stop_call.pid)
    /\ StopFinishes
    /\ UNCHANGED << os_procs, hb_pc, scan_signalled >>
    /\ UNCHANGED << chunkerVars, fnVars, mlxVars, pipeVars >>

\* process.wait(timeout=timeout) raises TimeoutExpired: the process is
\* still there; process.kill() sends SIGKILL and process.wait(timeout=5)
\* begins
StopWaitExpires ==
    /\ stop_call.pc = "wait"
    /\ WaitExpired(stop_call.pid)
    /\ stop_call' = [ stop_call EXCEPT !.pc = "kill_wait",
                                       !.sent = Append(@, "SIGKILL"),
                                       !.waits = Append(@, KillTimeout) ]
    /\ UNCHANGED << ledger, processes, os_procs, stop_calls, hb_pc, scan_signalled >>
    /\ UNCHANGED << chunkerVars, fnVars, mlxVars, pipeVars >>

\* process.wait(timeout=5) returns: the process ended on the SIGKILL, or
\* had ended before it
StopKillWaitReturns ==
    /\ stop_call.pc = "kill_wait"
    /\ os_procs' = IF os_procs[stop_call.pid].state = "running"
                   THEN SetState(stop_call.pid, "failed")
                   ELSE os_procs
    /\ StopFinishes
    /\ UNCHANGED << hb_pc, scan_signalled >>
    /\ UNCHANGED << chunkerVars, fnVars, mlxVars, pipeVars >>

\* stop_process(job_id) when process.terminate() raises, or when the process
\* is still there five seconds after kill(), so that wait(timeout=5) raises
\* TimeoutExpired: the outer except logs the error and returns False
StopRaises ==
    /\ \/ /\ Len(stop_calls) < MaxStops
          /\ stop_call = StopIdle
          /\ \E job_id \in PmJobs :
                /\ Tracked(job_id)
                /\ Polls(job_id)
                /\ StopReturns(job_id, TRUE, FALSE)
       \/ /\ stop_call.pc = "kill_wait"
          /\ WaitExpired(stop_call.pid)
          /\ StopReturns(stop_call.job_id, TRUE, FALSE)
    /\ stop_call' = StopIdle
    /\ UNCHANGED << ledger, processes, os_procs, hb_pc, scan_signalled >>
    /\ UNCHANGED << chunkerVars, fnVars, mlxVars, pipeVars >>

\* A step of a call of stop_process that is in one of its waits
StopStep == StopWaitReturns \/ StopWaitExpires \/ StopKillWaitReturns \/ StopRaises

\* kill_process(job_id) on a tracked job: kill(), wait(timeout=5), the
\* record is removed; the ledger is not written
KillProcess ==
    /\ \E job_id \in PmJobs :
          /\ Tracked(job_id)
          /\ os_procs' = IF Polls(job_id) THEN SetState(processes[job_id], "failed")
                         ELSE os_procs
          /\ processes' = CleanupProcess(processes, job_id)
    /\ UNCHANGED << ledger, stop_calls, stop_call, hb_pc, scan_signalled >>
    /\ UNCHANGED << chunkerVars, fnVars, mlxVars, pipeVars >>

\* The jobs _update_heartbeats has gone through when update_heartbeat
\* raises at job failed_at: any of the others, as self._processes is gone
\* through in the order of insertion; all of them when failed_at is Null
Visited(failed_at) ==
    IF failed_at = Null THEN { { job_id \in PmJobs : Tracked(job_id) } }
    ELSE SUBSET { job_id \in PmJobs : Tracked(job_id) /\ job_id # failed_at }

\* _update_heartbeats, the first half of an iteration of _heartbeat_loop:
\* for every tracked job, update_heartbeat if its process runs, removal of
\* the record if not; an exception of update_heartbeat ends the loop over
\* the jobs and is logged
UpdateHeartbeats ==
    /\ hb_pc \in { "due", "slept", "raised" }
    /\ \E failed_at \in { Null } \cup { job_id \in PmJobs : Tracked(job_id) /\ Polls(job_id) } :
       \E visited \in Visited(failed_at) :
          /\ processes' = [ job_id \in PmJobs |->
                              IF job_id \in visited /\ ~Polls(job_id) THEN Null
                              ELSE processes[job_id] ]
          /\ ledger' = [ job_id \in PmJobs |->
                           IF job_id \in visited /\ Polls(job_id)
                           THEN UpdateHeartbeat(ledger, job_id)[job_id]
                           ELSE ledger[job_id] ]
    /\ hb_pc' = "updated"
    /\ scan_signalled' = {}
    /\ UNCHANGED << os_procs, stop_calls, stop_call >>
    /\ UNCHANGED << chunkerVars, fnVars, mlxVars, pipeVars >>

\* The pids _check_orphans sends SIGTERM to: those of the rows of
\* get_orphaned_jobs(60) with a pid whose job is not in self._processes
ScanTargets ==
    { ledger[job_id].pid : job_id \in
        { orphan \in GetOrphanedJobs(ledger, OrphanTimeout) :
            ledger[orphan].pid # Null /\ ~Tracked(orphan) } }

\* _check_orphans, the second half of an iteration: os.kill(pid, SIGTERM)
\* for the orphans, a pid that is gone being passed over, then
\* cleanup_stale_jobs(); then time.sleep(self._heartbeat_interval)
CheckOrphans ==
    /\ hb_pc = "updated"
    /\ scan_signalled' = ScanTargets
    /\ ledger' = CleanupStaleJobs(ledger)
    /\ hb_pc' = "slept"
    /\ UNCHANGED << processes, os_procs, stop_calls, stop_call >>
    /\ UNCHANGED << chunkerVars, fnVars, mlxVars, pipeVars >>

\* _check_orphans when a query or an update of the ledger raises: the
\* exception is logged; the rows are as they were
CheckOrphansRaises ==
    /\ hb_pc = "updated"
    /\ \/ scan_signalled' = {}
       \/ scan_signalled' = ScanTargets
    /\ hb_pc' = "raised"
    /\ UNCHANGED << ledger, processes, os_procs, stop_calls, stop_call >>
    /\ UNCHANGED << chunkerVars, fnVars, mlxVars, pipeVars >>

\* TickSeconds pass once the heartbeat loop has run and sleeps; the loop is
\* then due again: every heartbeat written is that much older
Tick ==
    /\ hb_pc \in { "slept", "raised" }
    /\ \E job_id \in PmJobs :
          ledger[job_id].heartbeat \notin { NoHeartbeat, AgeCap }
    /\ ledger' = [ job_id \in PmJobs |->
                     IF ledger[job_id].heartbeat = NoHeartbeat THEN ledger[job_id]
                     ELSE [ ledger[job_id] EXCEPT
                              !.heartbeat = Min(@ + TickSeconds, AgeCap) ] ]
    /\ hb_pc' = "due"
    /\ UNCHANGED << processes, os_procs, stop_calls, stop_call, scan_signalled >>
    /\ UNCHANGED << chunkerVars, fnVars, mlxVars, pipeVars >>

NextPM ==
    \/ StartProcess
    \/ ParseProgress
    \/ ProcessExits
    \/ JobFinished
    \/ StopNotTracked
    \/ StopAlreadyTerminated
    \/ StopSendsTerm
    \/ StopWaitReturns
    \/ StopWaitExpires
    \/ StopKillWaitReturns
    \/ StopRaises
    \/ KillProcess
    \/ UpdateHeartbeats
    \/ CheckOrphans
    \/ CheckOrphansRaises

\* The supervisor while no heartbeat grows old
SpecPM == InitPM /\ [][NextPM]_vars

\* The same, where a call of stop_process that is in one of its waits goes
\* on: process.wait(timeout) returns or raises when its timeout has passed
SpecPMFair == SpecPM /\ WF_vars(StopStep)

\* The supervisor as time passes, stop_process not being called
NextHeartbeat ==
    \/ StartProcess
    \/ ParseProgress
    \/ ProcessExits
    \/ JobFinished
    \/ KillProcess
    \/ UpdateHeartbeats
    \/ CheckOrphans
    \/ CheckOrphansRaises
    \/ Tick

SpecHeartbeat == InitPM /\ [][NextHeartbeat]_vars

\* 'for line in proc_info.process.stdout' of _read_process_output comes to
\* its end: the process has ended and its output has been read
ReaderEnds ==
    /\ \E pid \in 1..Len(os_procs) :
          /\ os_procs[pid].reader
          /\ os_procs[pid].state # "running"
          /\ os_procs' = [ os_procs EXCEPT ![pid].reader = FALSE ]
    /\ UNCHANGED << ledger, processes, stop_calls, stop_call, hb_pc, scan_signalled >>
    /\ UNCHANGED << chunkerVars, fnVars, mlxVars, pipeVars >>

\* _parse_progress on a line the thread of _read_process_output reads
\* once the process has ended or its record is gone from self._processes:
\* the thread holds proc_info and job_id and does not look at the map or
\* at the row before update_job_status(job_id, 'processing', progress)
DrainProgress ==
    /\ \E pid \in 1..Len(os_procs) :
          LET job_id == os_procs[pid].job_id
          IN  /\ os_procs[pid].reader
              /\ \/ os_procs[pid].state # "running"
                 \/ processes[job_id] # pid
              /\ ledger' = UpdateJobStatus(ledger, job_id, "processing", Null)
    /\ UNCHANGED << processes, os_procs, stop_calls, stop_call, hb_pc, scan_signalled >>
    /\ UNCHANGED << chunkerVars, fnVars, mlxVars, pipeVars >>

\* The application after pm.stop_process(job_id) in run_transcription:
\* the result has success False, and the page calls fail_job(job_id, ...)
FailAfterStop ==
    /\ \E call \in 1..Len(stop_calls) :
          ledger' = FailJob(ledger, stop_calls[call].job_id)
    /\ UNCHANGED << processes, os_procs, stop_calls, stop_call, hb_pc, scan_signalled >>
    /\ UNCHANGED << chunkerVars, fnVars, mlxVars, pipeVars >>

NextLedger ==
    \/ NextPM
    \/ ReaderEnds
    \/ DrainProgress
    \/ FailAfterStop

\* The supervisor with the threads that read the output of its processes
\* and the application that calls it
SpecLedger == InitPM /\ [][NextLedger]_vars

----------------------------------------------------------------------------
(* ProcessManager statement by statement: a thread of the application      *)
(* that calls start_process, stop_process and kill_process, and the        *)
(* heartbeat thread, over self._processes                                  *)

MapThreads == { "caller", "heartbeat" }

\* A thread that is in no method that changes self._processes
ThreadIdle == [ pc |-> "idle", job_id |-> Null, pid |-> Null, todo |-> {} ]

\* The thread enters self._cleanup_process(job_id); pid is the record it
\* got from self._processes before, todo what is left of its loop
EntersCleanup(thread, job_id, pid, todo) ==
    map_threads' = [ map_threads EXCEPT ![thread] =
        [ pc |-> "check", job_id |-> job_id, pid |-> pid, todo |-> todo ] ]

\* The thread leaves _cleanup_process; raised: with the KeyError of del.
\* The caller is back in the application; the heartbeat thread goes on
\* with its loop, which the exception ends
LeavesCleanup(thread, raised) ==
    map_threads' = [ map_threads EXCEPT ![thread] =
        IF thread = "heartbeat" /\ ~raised
        THEN [ pc |-> "loop", job_id |-> Null, pid |-> Null, todo |-> @.todo ]
        ELSE ThreadIdle ]

InitMap ==
    /\ ChunkerIdle
    /\ MergeIdle
    /\ SplitIdle
    /\ SrtIdle
    /\ SingletonIdle
    /\ EngineIdle
    /\ OverlapIdle
    /\ MlxIdle
    /\ PipeIdle
    /\ ledger = << >>
    /\ stop_calls = << >>
    /\ stop_call = << >>
    /\ hb_pc = "idle"
    /\ scan_signalled = {}
    /\ os_procs = << >>
    /\ processes = [ job_id \in PmJobs |-> Null ]
    /\ map_threads = [ thread \in MapThreads |-> ThreadIdle ]

\* start_process(job_id, cmd) in the caller: Popen and
\* self._processes[job_id] = proc_info, one store into the dict
MapStartProcess ==
    /\ map_threads["caller"].pc = "idle"
    /\ Len(os_procs) < MaxPids
    /\ \E job_id \in PmJobs :
          /\ os_procs' = Append(os_procs, [ job_id |-> job_id, state |-> "running",
                                            own |-> TRUE, reader |-> TRUE ])
          /\ processes' = [ processes EXCEPT ![job_id] = Len(os_procs) + 1 ]
    /\ UNCHANGED << ledger, stop_calls, stop_call, hb_pc, scan_signalled >>
    /\ UNCHANGED << chunkerVars, fnVars, mlxVars, pipeVars >>

\* stop_process(job_id) in the caller comes to self._cleanup_process(job_id):
\* proc_info = self._processes.get(job_id) was there and the process has
\* ended, before the call or in one of its waits
MapStopProcess ==
    /\ map_threads["caller"].pc = "idle"
    /\ \E job_id \in PmJobs :
          /\ Tracked(job_id)
          /\ ~Polls(job_id)
          /\ EntersCleanup("caller", job_id, processes[job_id], {})
    /\ UNCHANGED << os_procs, processes >>
    /\ UNCHANGED << ledger, stop_calls, stop_call, hb_pc, scan_signalled >>
    /\ UNCHANGED << chunkerVars, mlxVars, pipeVars >>
    /\ UNCHANGED restOfMap

\* kill_process(job_id) in the caller: kill(), wait(timeout=5), then
\* self._cleanup_process(job_id)
MapKillProcess ==
    /\ map_threads["caller"].pc = "idle"
    /\ \E job_id \in PmJobs :
          /\ Tracked(job_id)
          /\ Polls(job_id)
          /\ os_procs' = SetState(processes[job_id], "failed")
          /\ EntersCleanup("caller", job_id, processes[job_id], {})
    /\ UNCHANGED processes
    /\ UNCHANGED << ledger, stop_calls, stop_call, hb_pc, scan_signalled >>
    /\ UNCHANGED << chunkerVars, mlxVars, pipeVars >>
    /\ UNCHANGED restOfMap

\* 'for job_id, proc_info in list(self._processes.items())' of
\* _update_heartbeats: the heartbeat thread copies the items of the map
MapSnapshot ==
    /\ map_threads["heartbeat"].pc = "idle"
    /\ \E job_id \in PmJobs : Tracked(job_id)
    /\ map_threads' = [ map_threads EXCEPT !["heartbeat"] =
          [ pc |-> "loop", job_id |-> Null, pid |-> Null,
            todo |-> { << job_id, processes[job_id] >> :
                         job_id \in { j \in PmJobs : Tracked(j) } } ] ]
    /\ UNCHANGED << os_procs, processes >>
    /\ UNCHANGED << ledger, stop_calls, stop_call, hb_pc, scan_signalled >>
    /\ UNCHANGED << chunkerVars, mlxVars, pipeVars >>
    /\ UNCHANGED restOfMap

\* One turn of the loop of _update_heartbeats on an item of the copy, in
\* either order of the jobs: update_heartbeat(job_id) if
\* proc_info.process.poll() is None, else self._cleanup_process(job_id)
MapVisit ==
    /\ map_threads["heartbeat"].pc = "loop"
    /\ \E item \in map_threads["heartbeat"].todo :
          LET rest == map_threads["heartbeat"].todo \ { item }
          IN  IF os_procs[item[2]].state = "running"
              THEN map_threads' = [ map_threads EXCEPT !["heartbeat"].todo = rest ]
              ELSE EntersCleanup("heartbeat", item[1], item[2], rest)
    /\ UNCHANGED << os_procs, processes >>
    /\ UNCHANGED << ledger, stop_calls, stop_call, hb_pc, scan_signalled >>
    /\ UNCHANGED << chunkerVars, mlxVars, pipeVars >>
    /\ UNCHANGED restOfMap

\* The loop of _update_heartbeats has gone through the copy
MapLoopEnds ==
    /\ map_threads["heartbeat"].pc = "loop"
    /\ map_threads["heartbeat"].todo = {}
    /\ map_threads' = [ map_threads EXCEPT !["heartbeat"] = ThreadIdle ]
    /\ UNCHANGED << os_procs, processes >>
    /\ UNCHANGED << ledger, stop_calls, stop_call, hb_pc, scan_signalled >>
    /\ UNCHANGED << chunkerVars, mlxVars, pipeVars >>
    /\ UNCHANGED restOfMap

\* 'if job_id in self._processes' of _cleanup_process, in either thread
MapCheck ==
    /\ \E thread \in MapThreads :
          /\ map_threads[thread].pc = "check"
          /\ IF Tracked(map_threads[thread].job_id)
             THEN map_threads' = [ map_threads EXCEPT ![thread].pc = "del" ]
             ELSE LeavesCleanup(thread, FALSE)
    /\ UNCHANGED << os_procs, processes >>
    /\ UNCHANGED << ledger, stop_calls, stop_call, hb_pc, scan_signalled >>
    /\ UNCHANGED << chunkerVars, mlxVars, pipeVars >>
    /\ UNCHANGED restOfMap

\* 'del self._processes[job_id]' of _cleanup_process, in either thread:
\* the entry that is there under job_id is removed; KeyError if none is
MapDelete ==
    /\ \E thread \in MapThreads :
          /\ map_threads[thread].pc = "del"
          /\ processes' = CleanupProcess(processes, map_threads[thread].job_id)
          /\ LeavesCleanup(thread, ~Tracked(map_threads[thread].job_id))
    /\ UNCHANGED os_procs
    /\ UNCHANGED << ledger, stop_calls, stop_call, hb_pc, scan_signalled >>
    /\ UNCHANGED << chunkerVars, mlxVars, pipeVars >>
    /\ UNCHANGED restOfMap

\* A process ends by itself
MapProcessExits ==
    /\ \E pid \in 1..Len(os_procs), state \in { "succeeded", "failed" } :
          /\ os_procs[pid].state = "running"
          /\ os_procs' = SetState(pid, state)
    /\ UNCHANGED processes
    /\ UNCHANGED << ledger, stop_calls, stop_call, hb_pc, scan_signalled >>
    /\ UNCHANGED << chunkerVars, fnVars, mlxVars, pipeVars >>

NextMap ==
    \/ MapStartProcess
    \/ MapStopProcess
    \/ MapKillProcess
    \/ MapSnapshot
    \/ MapVisit
    \/ MapLoopEnds
    \/ MapCheck
    \/ MapDelete
    \/ MapProcessExits

SpecMap == InitMap /\ [][NextMap]_vars

----------------------------------------------------------------------------
(* ProcessManager() statement by statement: __new__, __init__ and           *)
(* _start_heartbeat_thread in the threads of the application               *)

SgThreads == 1..MaxSgThreads

\* cls._instance is None
NoInstance == << >>

\* A thread outside ProcessManager() that has gone through it done times;
\* result is what its last call gave
SgThread(done, result) == [ pc |-> "idle", done |-> done, result |-> result ]

\* The thread goes to the statement pc
SgGoes(thread, pc) == sg_threads' = [ sg_threads EXCEPT ![thread].pc = pc ]

\* ProcessManager() returns or raises in the thread
SgReturns(thread, result) ==
    sg_threads' = [ sg_threads EXCEPT ![thread] = SgThread(@.done + 1, result) ]

InitSingleton ==
    /\ PmIdle
    /\ ChunkerIdle
    /\ MergeIdle
    /\ SplitIdle
    /\ SrtIdle
    /\ MapIdle
    /\ EngineIdle
    /\ OverlapIdle
    /\ MlxIdle
    /\ PipeIdle
    /\ sg_instance = NoInstance
    /\ sg_lock = 0
    /\ sg_heartbeats = 0
    /\ sg_threads = [ thread \in SgThreads |-> SgThread(0, "none") ]

\* A thread calls ProcessManager(), directly or in get_process_manager()
SgCall ==
    /\ \E thread \in SgThreads :
          /\ sg_threads[thread].pc = "idle"
          /\ sg_threads[thread].done < MaxConstructions
          /\ SgGoes(thread, "new_check")
    /\ UNCHANGED << sg_instance, sg_lock, sg_heartbeats >>
    /\ UNCHANGED << restOfSingleton, chunkerVars, mlxVars, pipeVars, pmVars >>

\* __new__: 'if cls._instance is None', before the lock; else
\* 'return cls._instance', and __init__ is called on it
SgNewCheck ==
    /\ \E thread \in SgThreads :
          /\ sg_threads[thread].pc = "new_check"
          /\ SgGoes(thread, IF sg_instance = NoInstance THEN "new_lock"
                            ELSE "init_check")
    /\ UNCHANGED << sg_instance, sg_lock, sg_heartbeats >>
    /\ UNCHANGED << restOfSingleton, chunkerVars, mlxVars, pipeVars, pmVars >>

\* __new__: 'with cls._lock' is entered
SgNewLock ==
    /\ sg_lock = 0
    /\ \E thread \in SgThreads :
          /\ sg_threads[thread].pc = "new_lock"
          /\ sg_lock' = thread
          /\ SgGoes(thread, "new_check2")
    /\ UNCHANGED << sg_instance, sg_heartbeats >>
    /\ UNCHANGED << restOfSingleton, chunkerVars, mlxVars, pipeVars, pmVars >>

\* __new__: 'if cls._instance is None', under the lock; if there is an
\* instance the lock is released and the instance returned
SgNewCheck2 ==
    /\ \E thread \in SgThreads :
          /\ sg_threads[thread].pc = "new_check2"
          /\ IF sg_instance = NoInstance
             THEN /\ SgGoes(thread, "new_create")
                  /\ UNCHANGED sg_lock
             ELSE /\ SgGoes(thread, "init_check")
                  /\ sg_lock' = 0
    /\ UNCHANGED << sg_instance, sg_heartbeats >>
    /\ UNCHANGED << restOfSingleton, chunkerVars, mlxVars, pipeVars, pmVars >>

\* __new__: cls._instance = super().__new__(cls), an object that has none
\* of the attributes yet
SgNewCreate ==
    /\ \E thread \in SgThreads :
          /\ sg_threads[thread].pc = "new_create"
          /\ sg_instance' = [ initialized |-> "unset", processes |-> {},
                              heartbeat_thread |-> 0 ]
          /\ SgGoes(thread, "new_flag")
    /\ UNCHANGED << sg_lock, sg_heartbeats >>
    /\ UNCHANGED << restOfSingleton, chunkerVars, mlxVars, pipeVars, pmVars >>

\* __new__: cls._instance._initialized = False; the lock is released and
\* the instance returned
SgNewFlag ==
    /\ \E thread \in SgThreads :
          /\ sg_threads[thread].pc = "new_flag"
          /\ sg_instance' = [ sg_instance EXCEPT !.initialized = "false" ]
          /\ sg_lock' = 0
          /\ SgGoes(thread, "init_check")
    /\ UNCHANGED sg_heartbeats
    /\ UNCHANGED << restOfSingleton, chunkerVars, mlxVars, pipeVars, pmVars >>

\* __init__: 'if self._initialized: return'; AttributeError if the
\* attribute is not there yet
SgInitCheck ==
    /\ \E thread \in SgThreads :
          /\ sg_threads[thread].pc = "init_check"
          /\ IF sg_instance.initialized = "unset"
             THEN SgReturns(thread, "AttributeError")
             ELSE IF sg_instance.initialized = "true"
                  THEN SgReturns(thread, "instance")
                  ELSE SgGoes(thread, "init_map")
    /\ UNCHANGED << sg_instance, sg_lock, sg_heartbeats >>
    /\ UNCHANGED << restOfSingleton, chunkerVars, mlxVars, pipeVars, pmVars >>

\* __init__: self._processes = {}
SgInitMap ==
    /\ \E thread \in SgThreads :
          /\ sg_threads[thread].pc = "init_map"
          /\ sg_instance' = [ sg_instance EXCEPT !.processes = {} ]
          /\ SgGoes(thread, "init_thread")
    /\ UNCHANGED << sg_lock, sg_heartbeats >>
    /\ UNCHANGED << restOfSingleton, chunkerVars, mlxVars, pipeVars, pmVars >>

\* __init__: self._heartbeat_thread = None
SgInitThread ==
    /\ \E thread \in SgThreads :
          /\ sg_threads[thread].pc = "init_thread"
          /\ sg_instance' = [ sg_instance EXCEPT !.heartbeat_thread = 0 ]
          /\ SgGoes(thread, "init_flag")
    /\ UNCHANGED << sg_lock, sg_heartbeats >>
    /\ UNCHANGED << restOfSingleton, chunkerVars, mlxVars, pipeVars, pmVars >>

\* __init__: self._initialized = True, then self._start_heartbeat_thread()
SgInitFlag ==
    /\ \E thread \in SgThreads :
          /\ sg_threads[thread].pc = "init_flag"
          /\ sg_instance' = [ sg_instance EXCEPT !.initialized = "true" ]
          /\ SgGoes(thread, "hb_check")
    /\ UNCHANGED << sg_lock, sg_heartbeats >>
    /\ UNCHANGED << restOfSingleton, chunkerVars, mlxVars, pipeVars, pmVars >>

\* _start_heartbeat_thread: 'if self._heartbeat_thread and
\* self._heartbeat_thread.is_alive(): return'
SgHbCheck ==
    /\ \E thread \in SgThreads :
          /\ sg_threads[thread].pc = "hb_check"
          /\ IF sg_instance.heartbeat_thread # 0
             THEN SgReturns(thread, "instance")
             ELSE SgGoes(thread, "hb_start")
    /\ UNCHANGED << sg_instance, sg_lock, sg_heartbeats >>
    /\ UNCHANGED << restOfSingleton, chunkerVars, mlxVars, pipeVars, pmVars >>

\* _start_heartbeat_thread: self._heartbeat_thread = threading.Thread(...)
\* and start(); a daemon thread that loops while self._heartbeat_running
SgHbStart ==
    /\ \E thread \in SgThreads :
          /\ sg_threads[thread].pc = "hb_start"
          /\ sg_heartbeats' = sg_heartbeats + 1
          /\ sg_instance' = [ sg_instance EXCEPT !.heartbeat_thread = sg_heartbeats + 1 ]
          /\ SgReturns(thread, "instance")
    /\ UNCHANGED sg_lock
    /\ UNCHANGED << restOfSingleton, chunkerVars, mlxVars, pipeVars, pmVars >>

\* start_process(job_id, cmd) on the instance, in a thread that has it:
\* self._processes[job_id] = proc_info
SgRegister ==
    /\ \E thread \in SgThreads, job_id \in PmJobs :
          /\ sg_threads[thread].pc = "idle"
          /\ sg_threads[thread].result = "instance"
          /\ job_id \notin sg_instance.processes
          /\ sg_instance' = [ sg_instance EXCEPT !.processes = @ \cup { job_id } ]
    /\ UNCHANGED << sg_lock, sg_heartbeats, sg_threads >>
    /\ UNCHANGED << restOfSingleton, chunkerVars, mlxVars, pipeVars, pmVars >>

NextSingleton ==
    \/ SgCall
    \/ SgNewCheck
    \/ SgNewLock
    \/ SgNewCheck2
    \/ SgNewCreate
    \/ SgNewFlag
    \/ SgInitCheck
    \/ SgInitMap
    \/ SgInitThread
    \/ SgInitFlag
    \/ SgHbCheck
    \/ SgHbStart
    \/ SgRegister

SpecSingleton == InitSingleton /\ [][NextSingleton]_vars

----------------------------------------------------------------------------
(* The threads of one transcription process over the shared engine:        *)
(* the pool of MLXTranscriber.transcribe_directory, and the loop of        *)
(* _process_worker_function in a process of HybridMLXTranscriber           *)

EngCallers == { "MLXTranscriber.transcribe_directory", "_process_worker_function" }

\* The threads that call transcribe_file in the process: the threads of
\* ThreadPoolExecutor(max_workers=self.max_workers) in transcribe_directory;
\* in _process_worker_function the one thread that runs
\* 'for i, chunk_file in enumerate(chunk_subset, 1)', whatever
\* workers_per_process is
EngThreads(caller, workers) ==
    IF caller = "MLXTranscriber.transcribe_directory" THEN 1..workers ELSE { 1 }

\* A faulty transcribe_file: the lock is acquire()d and release()d around
\* the call without try/finally, so that it stays held when the engine raises
LockKeptAfterRaise(thread) == thread

\* 'with self._model_lock' is left by the exception of self.model.transcribe:
\* the lock is free (0)
LockAfterRaise(thread) == 0

\* The chunks of the process that a thread has taken and not finished
InProgress == { thread \in DOMAIN eng_threads : eng_threads[thread].pc # "free" }

InitEngine ==
    /\ PmIdle
    /\ ChunkerIdle
    /\ MergeIdle
    /\ SplitIdle
    /\ SrtIdle
    /\ MapIdle
    /\ SingletonIdle
    /\ OverlapIdle
    /\ MlxIdle
    /\ PipeIdle
    /\ eng_caller \in EngCallers
    /\ eng_workers \in 1..MaxEngWorkers
    /\ eng_chunks \in 1..MaxEngChunks
    /\ eng_bad \in SUBSET (1..eng_chunks)
    /\ eng_threads = [ thread \in EngThreads(eng_caller, eng_workers) |->
                         [ pc |-> "free", chunk |-> 0 ] ]
    /\ model_lock = 0
    /\ eng_taken = 0
    /\ eng_results = [ chunk \in 1..eng_chunks |-> "none" ]

\* A thread that is free takes the next chunk: a thread of the executor
\* runs the next submitted _transcribe_chunk_thread, or the loop of
\* _process_worker_function goes to its next chunk_file; transcribe_file
\* is called and comes to 'with self._model_lock'
EngTake ==
    /\ eng_taken < eng_chunks
    /\ \E thread \in DOMAIN eng_threads :
          /\ eng_threads[thread].pc = "free"
          /\ eng_threads' = [ eng_threads EXCEPT ![thread] =
                                [ pc |-> "lock", chunk |-> eng_taken + 1 ] ]
    /\ eng_taken' = eng_taken + 1
    /\ UNCHANGED << eng_caller, eng_workers, eng_chunks, eng_bad, model_lock, eng_results >>
    /\ UNCHANGED << restOfEngine, chunkerVars, mlxVars, pipeVars, pmVars >>

\* 'with self._model_lock' is entered and self.model.transcribe(...) called
EngAcquire ==
    /\ model_lock = 0
    /\ \E thread \in DOMAIN eng_threads :
          /\ eng_threads[thread].pc = "lock"
          /\ model_lock' = thread
          /\ eng_threads' = [ eng_threads EXCEPT ![thread].pc = "engine" ]
    /\ UNCHANGED << eng_caller, eng_workers, eng_chunks, eng_bad, eng_taken, eng_results >>
    /\ UNCHANGED << restOfEngine, chunkerVars, mlxVars, pipeVars, pmVars >>

\* self.model.transcribe(...) returns: gc.collect(), 'return result' leaves
\* the with block, and the result of the chunk is a success
EngReturns ==
    /\ \E thread \in DOMAIN eng_threads :
          /\ eng_threads[thread].pc = "engine"
          /\ eng_threads[thread].chunk \notin eng_bad
          /\ model_lock' = 0
          /\ eng_results' = [ eng_results EXCEPT ![eng_threads[thread].chunk] = "success" ]
          /\ eng_threads' = [ eng_threads EXCEPT ![thread] = [ pc |-> "free", chunk |-> 0 ] ]
    /\ UNCHANGED << eng_caller, eng_workers, eng_chunks, eng_bad, eng_taken >>
    /\ UNCHANGED << restOfEngine, chunkerVars, mlxVars, pipeVars, pmVars >>

\* self.model.transcribe(...) raises: the exception is logged and raised
\* again, leaves the with block, and is caught by the caller of
\* transcribe_file, which records a failure for the chunk
EngRaises ==
    /\ \E thread \in DOMAIN eng_threads :
          /\ eng_threads[thread].pc = "engine"
          /\ eng_threads[thread].chunk \in eng_bad
          /\ model_lock' = LockAfterRaise(thread)
          /\ eng_results' = [ eng_results EXCEPT ![eng_threads[thread].chunk] = "failure" ]
          /\ eng_threads' = [ eng_threads EXCEPT ![thread] = [ pc |-> "free", chunk |-> 0 ] ]
    /\ UNCHANGED << eng_caller, eng_workers, eng_chunks, eng_bad, eng_taken >>
    /\ UNCHANGED << restOfEngine, chunkerVars, mlxVars, pipeVars, pmVars >>

NextEngine ==
    \/ EngTake
    \/ EngAcquire
    \/ EngReturns
    \/ EngRaises

SpecEngine == InitEngine /\ [][NextEngine]_vars

\* The same, where a thread that is free and has a chunk to take takes it,
\* and a thread that waits for the lock gets it when it is free; how long
\* the engine takes for a chunk is left open
SpecEngineFair == SpecEngine /\ WF_vars(EngTake) /\ WF_vars(EngAcquire)

----------------------------------------------------------------------------
(* MLXTranscriber._merge_chunks(chunks, chunks_meta) with metadata, turn   *)
(* by turn of its loop, on the texts of up to MaxOvChunks chunks           *)

RECURSIVE Repeat(_, _)
\* s * k
Repeat(s, k) == IF k = 0 THEN << >> ELSE s \o Repeat(s, k - 1)

\* "x la la la la la la la la": 25 characters
TextLaEnd == << "x" >> \o Repeat(<< " ", "l", "a" >>, 8)

\* "la la la la la la la la la y": its first 20, 21, 23 and 24 characters
\* are, up to whitespace, the last of TextLaEnd
TextLaLong == Repeat(<< "l", "a", " " >>, 9) \o << "y" >>

\* "la la la la la la la z", with a newline before it
TextLaShort == << "\n" >> \o Repeat(<< "l", "a", " " >>, 7) \o << "z" >>

\* "la la": shorter than min_overlap
TextLaTiny == << "l", "a", " ", "l", "a" >>

\* The texts of the chunk results handed to _merge_chunks: with a shared
\* text at several lengths, with one below min_overlap, with none, with
\* different whitespace, empty and blank
OvTexts ==
    { TextLaEnd, TextLaLong, TextLaShort, TextLaTiny, TextA, TextBSpaced,
      TextOther, << >>, << " " >> }

InitOverlap ==
    /\ PmIdle
    /\ ChunkerIdle
    /\ MergeIdle
    /\ SplitIdle
    /\ SrtIdle
    /\ MapIdle
    /\ SingletonIdle
    /\ EngineIdle
    /\ MlxIdle
    /\ PipeIdle
    /\ ov_chunks \in UNION { [ 1..n -> [ text : OvTexts ] ] : n \in 1..MaxOvChunks }
    /\ ov_parts = << >>
    /\ ov_idx = 0
    /\ ov_out = << >>
    /\ ov_pc = "loop"

\* One turn of 'for idx, chunk in enumerate(chunks)': a chunk without text
\* is passed over, the text of the first chunk of the list is appended as
\* it is, and that of a later chunk after
\* self._remove_overlap(merged_parts[-1] if merged_parts else "", text)
OvTurn ==
    /\ ov_pc = "loop"
    /\ ov_idx < Len(ov_chunks)
    /\ LET text == Strip(ov_chunks[ov_idx + 1].text)
           prev_text == IF ov_parts # << >> THEN ov_parts[Len(ov_parts)] ELSE << >>
       IN  ov_parts' = IF text = << >> THEN ov_parts
                       ELSE IF ov_idx = 0 THEN Append(ov_parts, text)
                       ELSE Append(ov_parts, RemoveOverlap(prev_text, text))
    /\ ov_idx' = ov_idx + 1
    /\ UNCHANGED << ov_chunks, ov_out, ov_pc >>
    /\ UNCHANGED << restOfOverlap, chunkerVars, mlxVars, pipeVars, pmVars >>

\* return '\n\n'.join(merged_parts)
OvReturns ==
    /\ ov_pc = "loop"
    /\ ov_idx = Len(ov_chunks)
    /\ ov_out' = Join(ChunkSeparator, ov_parts)
    /\ ov_pc' = "returned"
    /\ UNCHANGED << ov_chunks, ov_parts, ov_idx >>
    /\ UNCHANGED << restOfOverlap, chunkerVars, mlxVars, pipeVars, pmVars >>

NextOverlap ==
    \/ OvTurn
    \/ OvReturns

SpecOverlap == InitOverlap /\ [][NextOverlap]_vars

----------------------------------------------------------------------------
(* C1 *)

CoresTile(D, meta) ==
    /\ meta[1].core_start = 0
    /\ meta[Len(meta)].core_end = D
    /\ \A k \in 1..(Len(meta) - 1) : meta[k].core_end = meta[k + 1].core_start
    /\ \A k \in 1..Len(meta) : meta[k].core_start < meta[k].core_end

----------------------------------------------------------------------------
(* C2 *)

\* The index of the chunk whose result names file
ChunkIndex(file) ==
    CHOOSE k \in 1..hy_total_chunks : ChunkFile(hy_input_dir, k) = file

\* C2: whatever the order in which the chunk results complete, every
\* sequence handed to a merger (_merge_chunks by MLXTranscriber,
\* _merge_results by HybridMLXTranscriber) is strictly ascending in chunk
\* index: no merge runs on an unsorted sequence.
C2_MergeInputSorted ==
    /\ \A i, k \in 1..Len(mlx_merge_arg) :
          i < k => mlx_merge_arg[i].chunk_number < mlx_merge_arg[k].chunk_number
    /\ \A i, k \in 1..Len(hy_merge_arg) :
          i < k => ChunkIndex(hy_merge_arg[i].file) < ChunkIndex(hy_merge_arg[k].file)

----------------------------------------------------------------------------
(* Text predicates used by the properties *)

\* "end of sentence"
PhraseEndOfSentence ==
    << "e", "n", "d", " ", "o", "f", " ", "s", "e", "n", "t", "e", "n", "c", "e" >>

\* "reach the end of sentence"
PhraseReachTheEnd ==
    << "r", "e", "a", "c", "h", " ", "t", "h", "e", " ", "e", "n", "d", " ", "o", "f", " ", "s", "e", "n", "t", "e", "n", "c", "e" >>

\* "continues"
TextContinues ==
    << "c", "o", "n", "t", "i", "n", "u", "e", "s" >>

StartsWith(s, p) == Len(p) <= Len(s) /\ SubSeq(s, 1, Len(p)) = p

EndsWith(s, p) == Len(p) <= Len(s) /\ Suffix(s, Len(p)) = p

\* The positions at which p occurs in s
Occurrences(s, p) ==
    { i \in 1..(Len(s) - Len(p) + 1) : SubSeq(s, i, i + Len(p) - 1) = p }

\* p occurs in s exactly once, and what follows it is white space and then q
OnceFollowedBy(s, p, q) ==
    /\ Cardinality(Occurrences(s, p)) = 1
    /\ \A i \in Occurrences(s, p) :
          /\ \E k \in (i + Len(p) + 1)..(Len(s) + 1) :
                /\ \A j \in (i + Len(p))..(k - 1) : IsSpace(s[j])
                /\ StartsWith(SubSeq(s, k, Len(s)), q)

\* No suffix of a matches a prefix of b at any length the scan tries
NoOverlapInScanBounds(a, b) ==
    \A n \in MinOverlap..Min(Min(Len(a), Len(b)), MaxOverlapCheck) :
        ~OverlapMatches(a, b, n)

\* transcribe_directory has merged a directory of two chunks
MlxMergedTwo ==
    /\ mlx_pc = "done"
    /\ Len(mlx_merge_arg) = 2

----------------------------------------------------------------------------
(* C3 *)

\* C3 as stated: when chunk A ends with "end of sentence" and chunk B
\* starts with "end of sentence continues", the merged text contains
\* "end of sentence" exactly once, followed by "continues".
C3_AsStated ==
    ( /\ MlxMergedTwo
      /\ EndsWith(mlx_merge_arg[1].text, PhraseEndOfSentence)
      /\ StartsWith(mlx_merge_arg[2].text, PhraseEndOfSentence \o << " " >> \o TextContinues) )
    => OnceFollowedBy(mlx_combined_text, PhraseEndOfSentence, TextContinues)

\* C3 amended: when chunk A ends with a phrase and chunk B is that phrase
\* followed by " continues", the phrase is emitted once, followed by
\* "continues", if chunk metadata was supplied and the phrase has at least
\* min_overlap (20) characters; otherwise (no metadata, or a shorter phrase
\* such as the 15 characters of "end of sentence") both copies are kept and
\* the merged text is A, the separator, B.
C3_SharedPhraseOnceIfLongEnough ==
    \A phrase \in { PhraseEndOfSentence, PhraseReachTheEnd } :
        ( /\ MlxMergedTwo
          /\ EndsWith(mlx_merge_arg[1].text, phrase)
          /\ mlx_merge_arg[2].text = phrase \o << " " >> \o TextContinues )
        => IF mlx_has_meta /\ Len(phrase) >= 20
           THEN /\ OnceFollowedBy(mlx_combined_text, phrase, TextContinues)
                /\ mlx_combined_text =
                      mlx_merge_arg[1].text \o ChunkSeparator \o TextContinues
           ELSE /\ Cardinality(Occurrences(mlx_combined_text, phrase)) = 2
                /\ mlx_combined_text =
                      mlx_merge_arg[1].text \o ChunkSeparator \o mlx_merge_arg[2].text

\* A ends with the 25 characters "reach the end of sentence", B starts with
\* them, metadata was supplied and the merge has run.
C3_Witness ==
    /\ MlxMergedTwo
    /\ mlx_has_meta
    /\ mlx_merge_arg[1].text = TextA
    /\ mlx_merge_arg[2].text = TextBLong

----------------------------------------------------------------------------
(* C4 *)

\* C4: when no suffix of A's text matches a prefix of B's text at any length
\* within the scan bounds, merging A then B yields A, the separator, B, with
\* no character of A or B dropped (a chunk whose text is empty, a failed
\* chunk, contributes neither a part nor a separator).
C4_NoOverlapKeepsBoth ==
    ( /\ MlxMergedTwo
      /\ NoOverlapInScanBounds(mlx_merge_arg[1].text, mlx_merge_arg[2].text) )
    => LET a == mlx_merge_arg[1].text
           b == mlx_merge_arg[2].text
       IN  mlx_combined_text =
              IF a = << >> THEN b
              ELSE IF b = << >> THEN a
              ELSE a \o ChunkSeparator \o b

\* Two non-empty texts longer than min_overlap with no common tail/head have
\* been merged with metadata, so the scan ran and found nothing.
C4_Witness ==
    /\ MlxMergedTwo
    /\ mlx_has_meta
    /\ mlx_merge_arg[1].text = TextA
    /\ mlx_merge_arg[2].text = TextOther
    /\ NoOverlapInScanBounds(TextA, TextOther)

----------------------------------------------------------------------------
(* C5 *)

----------------------------------------------------------------------------
(* C6 *)

\* C6: the transcript the pipeline writes for a job is the overlap-aware
\* merge (_merge_chunks with _remove_overlap) of its index-sorted chunk
\* results.
C6_TranscriptIsOverlapMerge ==
    hy_pc = "done" => hy_combined_text = MergeChunks(hy_merge_arg, TRUE)

----------------------------------------------------------------------------
(* C7 *)

TerminalStatuses == { "completed", "failed", "cancelled" }

\* The steps of pending -> preparing -> transcribing -> {completed | failed |
\* cancelled}, with the failure of the preparation; the code's name of
\* "preparing" is "preprocessing".
StatusSteps ==
    { << "pending", "preprocessing" >>,
      << "preprocessing", "transcribing" >>,
      << "preprocessing", "failed" >>,
      << "transcribing", "completed" >>,
      << "transcribing", "failed" >>,
      << "transcribing", "cancelled" >> }

\* C7: a job's status changes only along pending -> preprocessing ->
\* transcribing -> {completed | failed | cancelled}: a job starts pending,
\* every change is one step forward, a terminal status never changes, and a
\* completed job has been pending, preprocessing and transcribing, in that
\* order.
C7_StatusStateMachine ==
    /\ [][ \A j \in DOMAIN job_status' :
              IF j \in DOMAIN job_status
              THEN \/ job_status'[j] = job_status[j]
                   \/ << job_status[j], job_status'[j] >> \in StatusSteps
              ELSE job_status'[j] = "pending" ]_vars
    /\ [](\A j \in Jobs :
              job_status[j] = "completed" =>
                  job_trail[j] = << "pending", "preprocessing", "transcribing", "completed" >>)

\* process_batch has returned with one job completed and another failed.
C7_Witness ==
    /\ batch_pc = "returned"
    /\ \E j \in Jobs : job_status[j] = "completed"
    /\ \E j \in Jobs : job_status[j] = "failed"

----------------------------------------------------------------------------
(* C8 *)

\* C8: when the transcription stage has ended and the job is completed, the
\* chunk indexes present in the collected results are exactly the planned
\* ones.
C8_CompletedHasEveryChunk ==
    \A j \in Jobs :
        (job_status[j] = "completed" /\ current_job = j) =>
            { ChunkIndex(all_results[k].file) : k \in 1..Len(all_results) }
                = 1..hy_total_chunks

----------------------------------------------------------------------------
(* C9 *)

\* C9: when process_batch has ended, every job other than one that failed
\* has a terminal status and a result entry.
C9_FailureSparesSiblings ==
    batch_pc \in { "returned", "raised" } =>
        \A j \in Jobs \ { raised_job } :
            /\ job_status[j] \in TerminalStatuses
            /\ \E k \in 1..Len(batch_results) : batch_results[k].job_id = j

----------------------------------------------------------------------------
(* C10 *)

\* C10: a job whose preparation succeeded and whose transcription stage then
\* fails is left in status failed (transcribing -> failed).
C10_TranscriptionFailureSetsFailed ==
    \A j \in Jobs :
        (raised_job = j /\ job_status[j] # "preprocessing") => job_status[j] = "failed"

----------------------------------------------------------------------------
(* C11 *)

\* C11: a preprocessing that returns a failure short-circuits the job: while
\* its result waits to be collected the job has not entered transcription;
\* when process_batch collects it the job becomes failed and a result with
\* the error is appended; a failed job has never been transcribing (the
\* engine was never started for it) and stays failed; and a preprocessing
\* that has failed is never queued or run again.
C11_PreprocessFailureShortCircuits ==
    /\ [](\A j \in Jobs :
            /\ preprocess_futures[j] = "failed" =>
                  job_trail[j] = << "pending", "preprocessing" >>
            /\ job_status[j] = "failed" =>
                  /\ job_trail[j] = << "pending", "preprocessing", "failed" >>
                  /\ current_job # j
                  /\ \E k \in 1..Len(batch_results) :
                        batch_results[k] =
                            [ job_id |-> j, success |-> FALSE, error |-> PreprocessError ])
    /\ [][ \A j \in Jobs :
              /\ (preprocess_futures[j] = "failed" /\ preprocess_futures'[j] # "failed") =>
                    /\ preprocess_futures'[j] = "taken"
                    /\ job_status'[j] = "failed"
              /\ job_status[j] = "failed" =>
                    /\ job_status'[j] = "failed"
                    /\ preprocess_futures'[j] = "taken" ]_vars

\* In a batch of two, job 1's preprocessing failed and was collected while
\* job 2 was transcribed to completion.
C11_Witness ==
    /\ batch_pc = "returned"
    /\ Len(job_status) = 2
    /\ job_status[1] = "failed"
    /\ job_status[2] = "completed"

----------------------------------------------------------------------------
(* C12 *)

JobsTranscribing == { j \in Jobs : job_status[j] = "transcribing" }

\* C12: at most one job of a batch is in the transcription stage at any
\* time: while the worker processes of a job run, that job is the only one
\* transcribing, and no job enters transcribing while they run, although
\* the preprocessings of several jobs run concurrently.
C12_OneJobTranscribing ==
    /\ [](/\ Cardinality(JobsTranscribing) <= 1
          /\ hy_pc = "collecting" => JobsTranscribing = { current_job })
    /\ [][ \A j \in Jobs :
              (job_status[j] # "transcribing" /\ job_status'[j] = "transcribing")
                  => hy_pc # "collecting" ]_vars

\* Job 1 is being transcribed while the preprocessing of job 2 has finished
\* and waits to be taken up.
C12_Witness ==
    /\ hy_pc = "collecting"
    /\ current_job = 1
    /\ Len(job_status) = 2
    /\ preprocess_futures[2] = "ok"
    /\ job_status[2] = "preprocessing"

----------------------------------------------------------------------------
(* C13 *)

\* The position of job j in the sequence order, 0 if it is not in it
PositionIn(order, j) ==
    IF \E i \in 1..Len(order) : order[i] = j
    THEN CHOOSE i \in 1..Len(order) : order[i] = j
    ELSE 0

\* C13: jobs enter the transcription stage in the order in which their
\* preprocessing finished: of two jobs whose transcription has started, the
\* one that started first is the one whose preprocessing finished first.
C13_TranscribedInPreparationOrder ==
    \A a, b \in Jobs :
        ( /\ PositionIn(transcribe_started, a) > 0
          /\ PositionIn(transcribe_started, b) > 0
          /\ PositionIn(prep_finished, a) < PositionIn(prep_finished, b) )
        => PositionIn(transcribe_started, a) < PositionIn(transcribe_started, b)

----------------------------------------------------------------------------
(* C14 *)

\* The entries of all_results for chunk chunk_num of the current job
HyResultsOf(chunk_num) ==
    { k \in 1..Len(all_results) :
        all_results[k].file = ChunkFile(hy_input_dir, chunk_num) }

\* The chunks the worker process process_id is given
HySubset(process_id) ==
    LET subset == SplitChunks(hy_total_chunks, NumProcesses, process_id)
    IN  { subset[k] : k \in 1..Len(subset) }

\* The result dicts of the thread transcriber, before and after the sort
MlxResultDicts ==
    IF mlx_pc = "done" THEN mlx_results ELSE ResultDicts(mlx_results)

\* The number of failed results of the current job
HyFailures == Cardinality({ k \in 1..Len(all_results) : ~all_results[k].success })

\* The chunks on which the engine raised: those with a failed result and no
\* successful one (a checkpoint save that raises adds a failed entry to a
\* chunk that was transcribed)
MlxFailures ==
    Cardinality({ idx \in DOMAIN mlx_engine_calls :
        /\ \E k \in 1..Len(MlxResultDicts) :
              MlxResultDicts[k].chunk_number = idx /\ ~MlxResultDicts[k].success
        /\ \A k \in 1..Len(MlxResultDicts) :
              MlxResultDicts[k].chunk_number = idx => ~MlxResultDicts[k].success })

\* C14: an engine error on one chunk is local. The chunk is recorded once,
\* as a failed result with empty text; the engine is called once for a
\* chunk, failed or not; the other chunks of the same worker are still
\* transcribed; the step that records the failure raises nothing and
\* leaves transcribe_directory collecting; and the job reaches completed
\* with a success rate that is the share of successful chunks, below 100
\* when a chunk has failed.
C14_ChunkFailureIsLocal ==
    /\ [](/\ \A k \in 1..Len(all_results) :
                ~all_results[k].success => all_results[k].text = << >>
          /\ \A chunk_num \in DOMAIN hy_engine_calls :
                /\ hy_engine_calls[chunk_num] <= 1
                /\ Cardinality(HyResultsOf(chunk_num)) = hy_engine_calls[chunk_num]
          /\ \A process_id \in 1..NumProcesses :
                (\E chunk_num \in HySubset(process_id) : HyResultsOf(chunk_num) # {})
                    => \A chunk_num \in HySubset(process_id) : HyResultsOf(chunk_num) # {}
          /\ hy_pc = "done" =>
                /\ job_status[current_job] = "completed"
                /\ hy_final_result.success_rate =
                      Percent(HySuccessfulChunks(all_results), hy_total_chunks)
                /\ HyFailures > 0 => hy_final_result.success_rate < 100
          /\ \A k \in 1..Len(MlxResultDicts) :
                ~MlxResultDicts[k].success => MlxResultDicts[k].text = << >>
          /\ \A idx \in DOMAIN mlx_engine_calls :
                /\ mlx_engine_calls[idx] <= 1
                /\ (mlx_pc \in { "collecting", "done" } /\ mlx_pending = {} /\ ~Skipped(idx))
                      => mlx_engine_calls[idx] = 1
          /\ mlx_pc = "done" =>
                /\ final_result.success_rate =
                      Percent(SuccessfulChunks(mlx_results), mlx_total_chunks)
                /\ MlxFailures > 0 => final_result.success_rate < 100)
    /\ [][ /\ HyFailures' > HyFailures =>
                (hy_pc' = hy_pc /\ batch_pc' = batch_pc /\ raised_job' = raised_job)
           /\ MlxFailures' > MlxFailures => mlx_pc' = mlx_pc ]_vars

\* A job is completed although the engine failed on one of its chunks and
\* succeeded on another: the success rate is between 0 and 100.
C14_Witness ==
    /\ hy_pc = "done"
    /\ job_status[current_job] = "completed"
    /\ \E k \in 1..Len(all_results) : ~all_results[k].success
    /\ \E k \in 1..Len(all_results) : all_results[k].success
    /\ hy_final_result.success_rate \in 1..99

----------------------------------------------------------------------------
(* C15 *)

\* The chunks the checkpoint loaded by the run records as done
Checkpointed == { idx \in DOMAIN mlx_engine_calls : Stem(idx) \in DOMAIN processed_chunks }

\* The final results for chunk idx
MlxFinalResultsOf(idx) == SelectSeq(mlx_results, LAMBDA r : r.chunk_number = idx)

\* C15: in a run resumed from a checkpoint that records N of the M chunks,
\* the engine is never called for a recorded chunk, whose stored result is
\* the one result the run returns for it, unchanged; the engine is called
\* for each of the other M-N chunks, and for no other.
C15_CheckpointedChunksNotTranscribed ==
    /\ \A idx \in Checkpointed :
          /\ mlx_engine_calls[idx] = 0
          /\ idx \notin mlx_pending
          /\ mlx_pc = "done" =>
                /\ MlxFinalResultsOf(idx) = << processed_chunks[Stem(idx)] >>
                /\ \E k \in 1..Len(mlx_merge_arg) :
                      mlx_merge_arg[k] = processed_chunks[Stem(idx)]
    /\ \A idx \in DOMAIN mlx_engine_calls \ Checkpointed :
          /\ mlx_engine_calls[idx] <= 1
          /\ mlx_engine_calls[idx] = 0 <=> idx \in mlx_pending
    /\ mlx_pc = "done" =>
          Cardinality({ idx \in DOMAIN mlx_engine_calls : mlx_engine_calls[idx] = 1 })
              = mlx_total_chunks - Cardinality(Checkpointed)

\* A run over three chunks, resumed from a checkpoint that records one of
\* them, has returned.
C15_Witness ==
    /\ mlx_pc = "done"
    /\ mlx_total_chunks = 3
    /\ Cardinality(Checkpointed) = 1
    /\ Cardinality({ idx \in 1..3 : mlx_engine_calls[idx] = 1 }) = 2

----------------------------------------------------------------------------
(* C16 *)

\* The chunks the run had to transcribe
Remaining == DOMAIN mlx_engine_calls \ Checkpointed

\* The chunks of Remaining that the run transcribed to a text
RemainingSuccessful ==
    { idx \in Remaining :
        \E k \in 1..Len(mlx_results) :
            mlx_results[k].chunk_number = idx /\ mlx_results[k].text # << >> }

\* C16: after a resume from a checkpoint that records N of the M chunks,
\* the success rate the run reports is the rate over the M-N chunks it had
\* to transcribe: the share of them that were transcribed successfully.
C16_RateOverRemainingChunks ==
    (mlx_pc = "done" /\ Checkpointed # {} /\ Remaining # {}) =>
        final_result.success_rate =
            Percent(Cardinality(RemainingSuccessful), Cardinality(Remaining))

----------------------------------------------------------------------------
(* C17 *)

\* The positions in results (pairs of idx and result) of the successful ones
SuccessfulEntries(results) == { k \in 1..Len(results) : results[k][2].success }

\* data has one entry for every successful result of results, under the
\* key of its chunk and with that chunk's result, and no other entry
RecordsEverySuccess(data, results) ==
    /\ DOMAIN data = { Stem(results[k][1]) : k \in SuccessfulEntries(results) }
    /\ \A k \in SuccessfulEntries(results) : data[Stem(results[k][1])] = results[k][2]

\* C17: each time the run saves the checkpoint (on every tenth completion)
\* the saved map has one entry for every chunk that has a successful
\* result so far, restored ones included, each under its own key with its
\* own result, and no entry for a failed chunk.
C17_CheckpointRecordsEverySuccess ==
    [][ ( /\ mlx_pc = "collecting"
          /\ checkpoint_file # "none"
          /\ completed_count' = completed_count + 1
          /\ completed_count' % CheckpointEvery = 0
          /\ Len(mlx_results') = Len(mlx_results) + 1 )
        => /\ checkpoint_file' = "present"
           /\ RecordsEverySuccess(checkpoint_data', mlx_results') ]_vars

----------------------------------------------------------------------------
(* C18 *)

\* C18: when transcribe_directory has returned, with its transcript
\* written, the checkpoint file does not exist: in particular after a run
\* in which every chunk was transcribed successfully.
C18_CheckpointDeletedOnSuccess ==
    mlx_pc = "done" =>
        /\ checkpoint_file # "present"
        /\ checkpoint_data = << >>

\* A run resumed from a checkpoint has saved a checkpoint of its own on its
\* tenth completion and has returned with every chunk successful.
C18_Witness ==
    /\ mlx_pc = "done"
    /\ processed_chunks # << >>
    /\ completed_count >= CheckpointEvery
    /\ \A k \in 1..Len(mlx_results) : mlx_results[k].success
    /\ checkpoint_file = "absent"

----------------------------------------------------------------------------
(* C19 *)

\* The call of stop_process that returns in this step was made on job_id,
\* which was tracked
StopOfTrackedReturns(job_id) ==
    /\ Len(stop_calls') = Len(stop_calls) + 1
    /\ stop_calls'[Len(stop_calls')].job_id = job_id
    /\ stop_calls'[Len(stop_calls')].tracked

\* C19: when stop_process returns for a job that was tracked, whatever the
\* outcome, the job is no longer in the tracked-process map.
C19_StopReapsRecord ==
    [][ \A job_id \in PmJobs :
           StopOfTrackedReturns(job_id) => processes'[job_id] = Null ]_vars

----------------------------------------------------------------------------
(* C20 *)

\* C20: when stop_process returns for a job that was tracked, the job's
\* ledger row has status cancelled.
C20_StopMarksCancelled ==
    [][ \A job_id \in PmJobs :
           StopOfTrackedReturns(job_id) => ledger'[job_id].status = "cancelled" ]_vars

----------------------------------------------------------------------------
(* C21 *)

\* The step sends the signal sig in the call of stop_process under way
StopSends(sig) ==
    /\ Len(stop_call'.sent) = Len(stop_call.sent) + 1
    /\ stop_call'.sent[Len(stop_call'.sent)] = sig

\* C21: stop_process sends SIGKILL only after it has sent SIGTERM and its
\* graceful wait has expired with the process still alive; it sends no
\* SIGKILL to a process that ended within the graceful wait.
C21_KillOnlyAfterGracefulWait ==
    /\ [](stop_call.sent \in { << >>, << "SIGTERM" >>, << "SIGTERM", "SIGKILL" >> })
    /\ [][ StopSends("SIGKILL") =>
             /\ stop_call.pc = "wait"
             /\ stop_call.sent = << "SIGTERM" >>
             /\ stop_call.waits = << GracefulTimeout >>
             /\ os_procs[stop_call.pid].state = "running" ]_vars
    /\ [][ ( /\ stop_call.pc = "wait"
             /\ os_procs[stop_call.pid].state # "running"
             /\ stop_call' # stop_call )
           => ( /\ stop_call' = StopIdle
                /\ os_procs' = os_procs ) ]_vars

\* stop_process has sent SIGKILL to a process that outlived the graceful wait
C21_Witness ==
    /\ stop_call.pc = "kill_wait"
    /\ stop_call.sent = << "SIGTERM", "SIGKILL" >>

----------------------------------------------------------------------------
(* C22 *)

RECURSIVE Sum(_)
Sum(seq) == IF seq = << >> THEN 0 ELSE Head(seq) + Sum(Tail(seq))

\* C22: every call of stop_process returns, whatever the process does,
\* also when it ignores SIGTERM; the waits a call is in are the graceful
\* wait and then at most one wait after the kill, so that it has waited
\* at most their two timeouts when it returns.
C22_StopAlwaysReturns ==
    /\ [](stop_call.waits \in { << >>, << GracefulTimeout >>,
                                << GracefulTimeout, KillTimeout >> })
    /\ [](\A call \in 1..Len(stop_calls) :
             Sum(stop_calls[call].waits) <= GracefulTimeout + KillTimeout)
    /\ (stop_call.pc # "idle") ~> (stop_call.pc = "idle")

\* A call of stop_process has returned True after both waits, on a process
\* that was still there after the graceful one
C22_Witness ==
    \E call \in 1..Len(stop_calls) :
        /\ stop_calls[call].waits = << GracefulTimeout, KillTimeout >>
        /\ stop_calls[call].returned

----------------------------------------------------------------------------
(* C23 *)

\* The processes of job_id that are alive
LiveProcesses(job_id) ==
    { pid \in 1..Len(os_procs) :
        os_procs[pid].job_id = job_id /\ os_procs[pid].state = "running" }

\* C23: in every reachable state, a job whose ledger status is processing
\* has exactly one live process.
C23_ProcessingHasOneLiveProcess ==
    \A job_id \in PmJobs :
        ledger[job_id].status = "processing"
            => Cardinality(LiveProcesses(job_id)) = 1

----------------------------------------------------------------------------
(* C24 *)

\* C24: whenever the ledger status of a job is completed, failed or
\* cancelled, its pid is NULL.
C24_TerminalRowHasNoPid ==
    \A job_id \in PmJobs :
        ledger[job_id].status \in LedgerTerminal => ledger[job_id].pid = Null

----------------------------------------------------------------------------
(* C25 *)

\* The row of job_id is in status processing, its heartbeat is older than
\* the timeout of cleanup_stale_jobs, and the job is not tracked
StaleUntracked(job_id) ==
    /\ job_id \in GetOrphanedJobs(ledger, StaleTimeout)
    /\ ~Tracked(job_id)

\* C25: a row in status processing whose heartbeat is older than the
\* staleness timeout and whose job is not tracked is set to failed, with
\* no pid and the 'no heartbeat' error text, by the iteration of the
\* heartbeat loop that follows: once an iteration has gone through and
\* until the clock goes on, there is no such row; this also when the pid
\* of the row is of a process that is gone.
C25_StaleRowReclaimed ==
    /\ [](hb_pc = "slept" => \A job_id \in PmJobs : ~StaleUntracked(job_id))
    /\ [][ (hb_pc = "updated" /\ hb_pc' = "slept") =>
             \A job_id \in PmJobs :
                StaleUntracked(job_id) =>
                    /\ ledger'[job_id].status = "failed"
                    /\ ledger'[job_id].pid = Null
                    /\ ledger'[job_id].error_message = NoHeartbeatError ]_vars

\* The heartbeat loop has just set to failed the row of a job whose
\* recorded process was gone when it sent it SIGTERM
C25_Witness ==
    /\ hb_pc = "slept"
    /\ \E pid \in scan_signalled :
          /\ os_procs[pid].state # "running"
          /\ ledger[os_procs[pid].job_id].status = "failed"
          /\ ledger[os_procs[pid].job_id].pid = Null
          /\ ledger[os_procs[pid].job_id].error_message = NoHeartbeatError

----------------------------------------------------------------------------
(* C26 *)

\* The step is the orphan scan of an iteration of the heartbeat loop
OrphanScan == hb_pc = "updated" /\ hb_pc' # "updated"

\* C26: the orphan scan sends no signal to the process of a job that is in
\* the tracked-process map, nor to the pid in its row, and does not set
\* the row of such a job to failed.
C26_ScanSparesTrackedJobs ==
    [][ OrphanScan =>
          \A job_id \in PmJobs :
             Tracked(job_id) =>
                /\ processes[job_id] \notin scan_signalled'
                /\ ledger[job_id].pid \notin scan_signalled'
                /\ ledger'[job_id].status = "failed"
                       => ledger[job_id].status = "failed" ]_vars

----------------------------------------------------------------------------
(* C27 *)

\* The step is _update_heartbeats of an iteration of the heartbeat loop
HeartbeatIteration == hb_pc # "updated" /\ hb_pc' = "updated"

\* Every tracked job whose process has ended is removed from the map
ReapsEveryExited ==
    \A job_id \in PmJobs :
        (Tracked(job_id) /\ ~Polls(job_id)) => processes'[job_id] = Null

\* Every tracked job whose process is alive has its heartbeat written
RefreshesEveryAlive ==
    \A job_id \in PmJobs :
        (Tracked(job_id) /\ Polls(job_id)) => ledger'[job_id].heartbeat = 0

\* C27: each iteration of the heartbeat loop writes the heartbeat of every
\* tracked job whose process is alive and removes every tracked job whose
\* process has ended, so that the heartbeat of a tracked job whose process
\* is alive is never older than the orphan timeout once the iteration is
\* through.
C27_IterationRefreshesAndReaps ==
    /\ [][ HeartbeatIteration => (RefreshesEveryAlive /\ ReapsEveryExited) ]_vars
    /\ [](hb_pc = "updated" =>
            \A job_id \in PmJobs :
                (Tracked(job_id) /\ Polls(job_id))
                    => ledger[job_id].heartbeat \in 0..OrphanTimeout)

----------------------------------------------------------------------------
(* C28 *)

\* The chunk numbers in the sequence group
Members(group) == { group[k] : k \in 1..Len(group) }

\* The files the loop of _split_chunks has dealt out: the first split_i
\* of the list
Dealt == split_i

\* C28: _split_chunks puts the file at position i (0-based) of the sorted
\* list into group i mod P: every file dealt out is in exactly one group,
\* each group holds its files in list order, and the sizes of two groups
\* differ by at most one; the groups of the pipeline model (SplitChunks)
\* are the ones the loop returns.
C28_RoundRobinPartition ==
    split_pc # "idle" =>
        /\ Len(subsets) = num_groups
        /\ \A i \in 0..(Dealt - 1) :
              \A group \in 1..num_groups :
                 (chunk_files[i + 1] \in Members(subsets[group]))
                    <=> (group = (i % num_groups) + 1)
        /\ \A group \in 1..num_groups :
              /\ Members(subsets[group]) \subseteq 1..Dealt
              /\ \A k \in 1..(Len(subsets[group]) - 1) :
                    subsets[group][k] < subsets[group][k + 1]
        /\ \A g1, g2 \in 1..num_groups :
              Len(subsets[g1]) - Len(subsets[g2]) \in { -1, 0, 1 }
        /\ split_pc = "returned" =>
              \A group \in 1..num_groups :
                 subsets[group] = SplitChunks(Len(chunk_files), num_groups, group)

\* _split_chunks has returned groups of different sizes, of more than one
\* file each
C28_Witness ==
    /\ split_pc = "returned"
    /\ num_groups > 1
    /\ \E g1, g2 \in 1..num_groups :
          Len(subsets[g1]) > Len(subsets[g2]) /\ Len(subsets[g2]) > 1

----------------------------------------------------------------------------
(* C29 *)

----------------------------------------------------------------------------
(* C30 *)

\* The entries of the segments with words of the chunk at position k, from
\* segment j on, numbered from entry_num, each timed from the start of the
\* window of the chunk in the input
RECURSIVE OffsetEntries(_, _, _)
OffsetEntries(k, j, entry_num) ==
    LET segments == srt_chunks[k].segments
        window_start == WindowStart(MaxChunkDuration, MaxOverlap, k - 1)
    IN  IF j > Len(segments) THEN << >>
        ELSE IF Strip(segments[j].text) = << >>
             THEN OffsetEntries(k, j + 1, entry_num)
             ELSE << [ entry_num |-> entry_num,
                       start_ts |-> SecondsToSrtTimestamp(window_start + segments[j].start),
                       end_ts |-> SecondsToSrtTimestamp(window_start + segments[j].end),
                       text |-> Strip(segments[j].text) ] >>
                  \o OffsetEntries(k, j + 1, entry_num + 1)

\* The entries of the chunks from position k on
RECURSIVE OffsetEntriesFrom(_, _)
OffsetEntriesFrom(k, entry_num) ==
    IF k > Len(srt_chunks) THEN << >>
    ELSE LET entries == OffsetEntries(k, 1, entry_num)
         IN  entries \o OffsetEntriesFrom(k + 1, entry_num + Len(entries))

\* C30: the subtitle file holds the timed segments of all chunks in chunk
\* order, none left out as a duplicate, and the start and end of each entry
\* are the start of the window of its chunk plus the start and end of the
\* segment within the chunk.
C30_SrtTimesOffsetByWindow ==
    srt_pc = "written" => srt_entries = OffsetEntriesFrom(1, 1)

----------------------------------------------------------------------------
(* C37 *)

\* The processes start_process has spawned that are alive
LiveSpawned ==
    { pid \in 1..Len(os_procs) :
        os_procs[pid].own /\ os_procs[pid].state = "running" }

\* C37: every process that start_process has spawned and that is alive is
\* in the tracked-process map under the id of its job, also after
\* start_process has been called again for a job whose process is alive.
C37_LiveSpawnedIsTracked ==
    \A pid \in LiveSpawned : processes[os_procs[pid].job_id] = pid

----------------------------------------------------------------------------
(* C38 *)

\* The call of stop_process that is in one of its waits returns in this step
StopInFlightReturns ==
    /\ stop_call.pc \in { "wait", "kill_wait" }
    /\ Len(stop_calls') = Len(stop_calls) + 1

\* C38: when the write of the cancelled state fails in stop_process, so
\* that the row of the job is not cancelled when the call returns, the
\* call does not return True.
C38_FailedCancelWriteNotSuccess ==
    [][ ( /\ StopInFlightReturns
          /\ ledger'[stop_call.job_id].status # "cancelled" )
        => ~stop_calls'[Len(stop_calls')].returned ]_vars

----------------------------------------------------------------------------
(* C39 *)

\* update_heartbeat(job_id) has raised in the iteration of this step: the
\* job is tracked, its process alive, and its heartbeat is not written
HeartbeatWriteFailed(job_id) ==
    /\ HeartbeatIteration
    /\ Tracked(job_id)
    /\ Polls(job_id)
    /\ ledger'[job_id].heartbeat # 0

\* C39: a failure of a heartbeat write is swallowed: the heartbeat loop
\* goes on to the orphan scan and to its next iteration, and in the
\* iteration in which the write of one job fails every other tracked job
\* has its heartbeat written if its process is alive and is removed from
\* the map if its process has ended.
C39_HeartbeatFailureIsLocal ==
    /\ [](hb_pc \in { "due", "updated", "slept", "raised" })
    /\ [][ \A job_id \in PmJobs :
             HeartbeatWriteFailed(job_id) =>
                \A other \in PmJobs \ { job_id } :
                   /\ (Tracked(other) /\ Polls(other))
                          => ledger'[other].heartbeat = 0
                   /\ (Tracked(other) /\ ~Polls(other))
                          => processes'[other] = Null ]_vars

----------------------------------------------------------------------------
(* C32 *)

\* The step spawns a process
Spawns == Len(os_procs') = Len(os_procs) + 1

\* C32: once the status of a row is completed, failed or cancelled, no
\* write of the thread that reads the output of the process, of the
\* heartbeat loop, of stop_process or of the application changes it.
C32_TerminalStatusIsFinal ==
    [][ ~Spawns =>
          \A job_id \in PmJobs :
             ledger[job_id].status \in LedgerTerminal
                 => ledger'[job_id].status = ledger[job_id].status ]_vars

----------------------------------------------------------------------------
(* C31 *)

\* The thread is between the check and the del of _cleanup_process, before
\* and after the step
HoldsCheck(thread) ==
    /\ map_threads[thread].pc = "del"
    /\ map_threads'[thread].pc = "del"

\* The step is the del of _cleanup_process in the thread
Deletes(thread) ==
    /\ map_threads[thread].pc = "del"
    /\ map_threads'[thread].pc # "del"

\* C31: the changes of the tracked-process map exclude one another: while
\* a thread is between the check and the del of _cleanup_process no other
\* thread changes the map, so that the del finds the entry, and the entry
\* it removes is the record the thread had looked at.
C31_MapMutationsExclusive ==
    /\ [][ \A thread \in MapThreads :
             HoldsCheck(thread) => processes' = processes ]_vars
    /\ [][ \A thread \in MapThreads :
             Deletes(thread) =>
                /\ Tracked(map_threads[thread].job_id)
                /\ processes[map_threads[thread].job_id] = map_threads[thread].pid ]_vars

----------------------------------------------------------------------------
(* C40 *)

\* No thread is inside ProcessManager()
SgQuiet == \A thread \in SgThreads : sg_threads[thread].pc = "idle"

\* C40: every construction of ProcessManager, from whatever thread, gives
\* the one instance; once a process is registered in the tracked-process
\* map of the instance no construction empties the map; and there is never
\* more than one heartbeat thread, and exactly one whenever a construction
\* has returned and no thread is inside one.
C40_SingletonInitialisedOnce ==
    /\ [](\A thread \in SgThreads : sg_threads[thread].result # "AttributeError")
    /\ [][ sg_instance # NoInstance =>
             /\ sg_instance' # NoInstance
             /\ sg_instance.processes \subseteq sg_instance'.processes ]_vars
    /\ [](sg_heartbeats <= 1)
    /\ []( ( /\ SgQuiet
             /\ \E thread \in SgThreads : sg_threads[thread].done > 0 )
           => sg_heartbeats = 1 )

----------------------------------------------------------------------------
(* C33 *)

\* The threads that are inside self.model.transcribe(...)
InEngine == { thread \in DOMAIN eng_threads : eng_threads[thread].pc = "engine" }

\* C33: in a transcription process at most one thread at a time is inside
\* the call of the engine; a thread holds the lock of the process exactly
\* while it is inside that call, and the lock is free again when the call
\* has returned as well as when it has raised.
C33_LockAroundEngineCall ==
    /\ [](Cardinality(InEngine) <= 1)
    /\ [](\A thread \in DOMAIN eng_threads : model_lock = thread <=> thread \in InEngine)
    /\ [][ \A thread \in DOMAIN eng_threads :
             (thread \in InEngine /\ eng_threads'[thread].pc # "engine")
                 => model_lock' = 0 ]_vars

\* The engine has raised on a chunk, and another thread is inside the
\* engine after it while a third chunk waits for the lock
C33_Witness ==
    /\ \E chunk \in 1..eng_chunks : eng_results[chunk] = "failure"
    /\ InEngine # {}
    /\ \E thread \in DOMAIN eng_threads : eng_threads[thread].pc = "lock"

----------------------------------------------------------------------------
(* C34 *)

\* A worker process of HybridMLXTranscriber asked for at least two threads
\* has one chunk in progress and another still to take
SecondChunkWaits ==
    /\ eng_caller = "_process_worker_function"
    /\ eng_workers >= 2
    /\ Cardinality(InProgress) = 1
    /\ eng_taken < eng_chunks

----------------------------------------------------------------------------
(* C35 *)

\* The text merged before the next turn of the loop
MergedSoFar == Join(ChunkSeparator, ov_parts)

\* The text of the chunk the next turn of the loop is about
TurnText == Strip(ov_chunks[ov_idx + 1].text)

\* The candidate lengths at which the tail of the text merged so far and the
\* head of the text of the turn agree after whitespace normalization: from
\* min_overlap up to max_check, which is 200 or the length of the shorter of
\* the part appended last and the text of the turn
TurnMatches ==
    LET last_part == IF ov_parts = << >> THEN << >> ELSE ov_parts[Len(ov_parts)]
        upper == Min(Min(Len(last_part), Len(TurnText)), MaxOverlapCheck)
    IN  { n \in MinOverlap..upper :
            Normalize(Suffix(MergedSoFar, n)) = Normalize(Prefix(TurnText, n)) }

\* The candidate lengths when the tail may be as long as the whole of the
\* text merged so far
MergedTextMatches ==
    LET upper == Min(Min(Len(MergedSoFar), Len(TurnText)), MaxOverlapCheck)
    IN  { n \in MinOverlap..upper :
            Normalize(Suffix(MergedSoFar, n)) = Normalize(Prefix(TurnText, n)) }

\* C35 as stated: for each chunk after the first, the merger compares the
\* normalized tail of the merged text so far with the normalized head of the
\* new chunk for the lengths from 200 down to 20 and drops exactly the
\* longest matching length from the head of the new chunk.
C35_AsStated ==
    [][ (OvTurn /\ ov_idx >= 1 /\ TurnText # << >>) =>
            IF MergedTextMatches = {}
            THEN ov_parts' = Append(ov_parts, TurnText)
            ELSE \E n \in MergedTextMatches :
                    /\ \A m \in MergedTextMatches : m <= n
                    /\ ov_parts' = Append(ov_parts, LStrip(DropPrefix(TurnText, n))) ]_vars

\* C35, amended: in every turn of the merge loop on a chunk after the first
\* that has text, the part appended is the text of the chunk without its
\* first L characters (and the whitespace after them), L being the longest
\* candidate length, from the minimum of 20 up to 200 and no longer than the
\* part appended last, at which the normalized tail of the merged text and
\* the normalized head of the chunk agree: no shorter matching length is
\* taken while a longer one matches, and the text is appended whole when no
\* length matches.
C35_LongestOverlapDropped ==
    [][ (OvTurn /\ ov_idx >= 1 /\ TurnText # << >>) =>
            IF TurnMatches = {}
            THEN ov_parts' = Append(ov_parts, TurnText)
            ELSE \E n \in TurnMatches :
                    /\ \A m \in TurnMatches : m <= n
                    /\ ov_parts' = Append(ov_parts, LStrip(DropPrefix(TurnText, n))) ]_vars

\* A second chunk whose head matched the tail of the first at the minimum
\* length and at a longer one has been merged: what is left of it is shorter
\* than its text by more than the minimum
C35_Witness ==
    /\ ov_pc = "returned"
    /\ Len(ov_chunks) >= 2
    /\ Len(ov_parts) >= 2
    /\ BestOverlap(ov_parts[1], Strip(ov_chunks[2].text)) > MinOverlap + 1
    /\ OverlapMatches(ov_parts[1], Strip(ov_chunks[2].text), MinOverlap)
    /\ Len(ov_parts[2]) < Len(Strip(ov_chunks[2].text)) - MinOverlap

----------------------------------------------------------------------------
(* C36 *)

\* The characters of s that are not whitespace, in order
NonSpace(s) == SelectSeq(s, LAMBDA c : ~IsSpace(c))

RECURSIVE Concat(_)
\* The texts of a list one after the other
Concat(texts) ==
    IF texts = << >> THEN << >> ELSE Head(texts) \o Concat(Tail(texts))

\* The lengths L for which the part is the text without its first L
\* characters, these being, up to whitespace, the last L characters of the
\* part merged immediately before; L = 0 when nothing is dropped
DroppedLengths(prev_text, text, part) ==
    { n \in 0..Len(text) :
        /\ NonSpace(part) = NonSpace(DropPrefix(text, n))
        /\ n > 0 => /\ n <= Len(prev_text)
                    /\ NonSpace(Prefix(text, n)) = NonSpace(Suffix(prev_text, n)) }

\* C36: overlap removal never loses content. In every turn of the merge
\* loop on a chunk with text, what is appended is the text without some L
\* leading characters that are, up to whitespace, identical to the last L
\* characters of the part merged immediately before it, every other
\* non-whitespace character of the text being kept; and the transcript
\* returned holds the non-whitespace characters of all parts, in chunk order.
C36_OverlapRemovalKeepsContent ==
    /\ [][ (OvTurn /\ TurnText # << >>) =>
            /\ Len(ov_parts') = Len(ov_parts) + 1
            /\ SubSeq(ov_parts', 1, Len(ov_parts)) = ov_parts
            /\ DroppedLengths(IF ov_parts = << >> THEN << >> ELSE ov_parts[Len(ov_parts)],
                              TurnText, ov_parts'[Len(ov_parts')]) # {} ]_vars
    /\ [][ (OvTurn /\ TurnText = << >>) => ov_parts' = ov_parts ]_vars
    /\ [](ov_pc = "returned" => NonSpace(ov_out) = NonSpace(Concat(ov_parts)))

\* A transcript has been returned in which a chunk lost MinOverlap leading
\* characters or more to the removal and another chunk lost none
C36_Witness ==
    /\ ov_pc = "returned"
    /\ Len(ov_parts) = 3
    /\ Len(Strip(ov_chunks[2].text)) - Len(ov_parts[2]) >= MinOverlap
    /\ ov_parts[3] = Strip(ov_chunks[3].text)
    /\ ov_out # << >>

====
